---- MODULE Spec2Model ----
(***************************************************************************)
(* A model of the otter budgeting backend: the SQLite repositories         *)
(* (crates/db/src/repos) as atomic statements over four tables, and the    *)
(* domain services (crates/domain/src/services) as sequences of repository *)
(* calls.                                                                  *)
(*                                                                         *)
(*   Option<T>          None is <<>>, Some(x) is <<x>>                     *)
(*   String             a sequence of character codes (Unicode scalars)    *)
(*   Result<T, E>       [tag |-> "Ok", val |-> v] or [tag |-> <error>]     *)
(*   Ulid::new()        the next value of a per-table counter (fresh)      *)
(***************************************************************************)
EXTENDS Integers, Sequences, FiniteSets, TLC

VARIABLES
    months,        \* table months: rows [id, month (text "YYYY-MM")]
    categories,    \* table categories: rows [id, name (text), label]
    entries,       \* table budget_entries: rows [id, month_id, category_id, budgeted, due_day]
    transactions,  \* table transactions: rows [id, entry_id, amount, date (text), title, created_at, updated_at]
    nextId,        \* the ids not yet handed out: [month, category, entry, transaction]
    procs          \* the requests in flight, [calls, at], of the interleaved specifications; <<>> in the others

vars == <<months, categories, entries, transactions, nextId, procs>>

-----------------------------------------------------------------------------
(* Bounds of the model *)

(* Spec: the rows a table receives, the entries created by EntryService     *)
(* (the rest are copies), the call of the copy phase the store may fail      *)
MaxMonthRows == 3
MaxCategoryRows == 2
MaxEntryRows == 4
MaxEntryCalls == 2
MaxFault == 3

(* SpecLedger: the rows a table receives *)
LedgerEntryRows == 2
LedgerTransactionRows == 2

(* SpecConc: the calls the two requests start between them, the rows the     *)
(* transactions table receives                                               *)
MaxCalls == 4
ConcTransactionRows == 2

(* SpecConcCreate: the rows the months and entries tables receive *)
PairMonthRows == 2
PairEntryRows == 4

(* SpecTransactions: the rows the transactions table receives *)
TransactionRows == 2

(* SpecStatus: budgeted is within -MaxMoney..MaxMoney, paid within 0..MaxMoney *)
MaxMoney == 7

-----------------------------------------------------------------------------
(* Option and Result *)

None == <<>>
Some(x) == <<x>>
IsSome(o) == o /= <<>>
Unwrap(o) == o[1]

Ok(v) == [tag |-> "Ok", val |-> v]
Err(t) == [tag |-> t]
IsOk(r) == r.tag = "Ok"

-----------------------------------------------------------------------------
(* Text: SQLite compares TEXT columns bytewise (BINARY collation) *)

Min(a, b) == IF a < b THEN a ELSE b

TextLess(a, b) ==
    \E i \in 1..(Min(Len(a), Len(b)) + 1) :
        /\ \A j \in 1..(i - 1) : a[j] = b[j]
        /\ \/ i > Len(a) /\ i <= Len(b)
           \/ i <= Len(a) /\ i <= Len(b) /\ a[i] < b[i]

Digit(d) == 48 + d
Hyphen == 45

(* Display without the width of the month: write!(f, "{:04}-{}", year, month) *)
BudgetMonthToStringUnpadded(bm) ==
    << Digit((bm.year \div 1000) % 10), Digit((bm.year \div 100) % 10),
       Digit((bm.year \div 10) % 10), Digit(bm.year % 10), Hyphen >>
    \o (IF bm.month >= 10 THEN << Digit((bm.month \div 10) % 10) >> ELSE <<>>)
    \o << Digit(bm.month % 10) >>

(* impl Display for BudgetMonth: write!(f, "{:04}-{:02}", year, month) *)
BudgetMonthToString(bm) ==
    << Digit((bm.year \div 1000) % 10), Digit((bm.year \div 100) % 10),
       Digit((bm.year \div 10) % 10), Digit(bm.year % 10), Hyphen,
       Digit((bm.month \div 10) % 10), Digit(bm.month % 10) >>

(* BudgetMonth::new *)
BudgetMonthNew(year, month) ==
    IF ~(2000 <= year /\ year <= 2100) THEN Err("InvalidBudgetMonth")
    ELSE IF ~(1 <= month /\ month <= 12) THEN Err("InvalidBudgetMonth")
    ELSE Ok([year |-> year, month |-> month])

(* char::is_alphanumeric: Alphabetic, or of the general categories Nd, Nl,   *)
(* No. The table covers the chars up to U+00FF, which are all the names of   *)
(* the model hold                                                            *)
IsAlphanumeric(c) ==
    \/ c \in 48..57 \/ c \in 65..90 \/ c \in 97..122
    \/ c \in {170, 181, 186} \/ c \in 192..214 \/ c \in 216..246 \/ c \in 248..255
    \/ c \in {178, 179, 185, 188, 189, 190}

(* value.split('/') *)
RECURSIVE SplitOnSlash(_)
SplitOnSlash(t) ==
    IF ~\E i \in 1..Len(t) : t[i] = 47 THEN <<t>>
    ELSE LET k == CHOOSE i \in 1..Len(t) : t[i] = 47 /\ \A j \in 1..(i - 1) : t[j] /= 47
         IN  <<SubSeq(t, 1, k - 1)>> \o SplitOnSlash(SubSeq(t, k + 1, Len(t)))

(* CategoryName::new; '/' is 47, '-' 45, '_' 95 *)
CategoryNameNew(value) ==
    IF value = <<>> THEN Err("InvalidCategoryName")
    ELSE IF value[1] = 47 THEN Err("InvalidCategoryName")
    ELSE IF value[Len(value)] = 47 THEN Err("InvalidCategoryName")
    ELSE IF \E i \in 1..(Len(value) - 1) : value[i] = 47 /\ value[i + 1] = 47
    THEN Err("InvalidCategoryName")
    ELSE LET segments == SplitOnSlash(value)
         IN  IF \E k \in 1..Len(segments) :
                    \/ segments[k] = <<>>
                    \/ ~\A i \in 1..Len(segments[k]) :
                           \/ IsAlphanumeric(segments[k][i])
                           \/ segments[k][i] = 45
                           \/ segments[k][i] = 95
             THEN Err("InvalidCategoryName")
             ELSE Ok(value)

-----------------------------------------------------------------------------
(* The store *)

Store ==
    [months |-> months, categories |-> categories, entries |-> entries,
     transactions |-> transactions, nextId |-> nextId]

EmptyStore ==
    [months |-> {}, categories |-> {}, entries |-> {}, transactions |-> {},
     nextId |-> [month |-> 1, category |-> 1, entry |-> 1, transaction |-> 1]]

Commit(s) ==
    /\ months' = s.months
    /\ categories' = s.categories
    /\ entries' = s.entries
    /\ transactions' = s.transactions
    /\ nextId' = s.nextId

-----------------------------------------------------------------------------
(* impl FromStr for BudgetMonth: split on '-', parse::<i32>, parse::<u8>, new *)

Plus == 43
IsDigit(c) == 48 <= c /\ c <= 57

(* the value of a digit string, saturating at Saturated: every i32 or u8    *)
(* that large is outside the years and months BudgetMonth::new accepts, as   *)
(* is every string parse rejects for overflow                                *)
Saturated == 100000

RECURSIVE DigitsValue(_)
DigitsValue(t) ==
    IF t = <<>> THEN 0
    ELSE Min(Saturated, 10 * DigitsValue(SubSeq(t, 1, Len(t) - 1)) + (t[Len(t)] - 48))

(* str::parse for an unsigned or a non-negative integer: an optional '+',   *)
(* then one digit or more; a part of a split on '-' never holds a '-'        *)
ParseInt(t) ==
    LET digits == IF t /= <<>> /\ t[1] = Plus THEN Tail(t) ELSE t
    IN  IF digits = <<>> \/ \E i \in 1..Len(digits) : ~IsDigit(digits[i])
        THEN Err("ParseIntError")
        ELSE Ok(DigitsValue(digits))

BudgetMonthFromStr(t) ==
    LET hyphens == {i \in 1..Len(t) : t[i] = Hyphen}
    IN  IF Cardinality(hyphens) /= 1 THEN Err("InvalidBudgetMonth")
        ELSE LET k == CHOOSE i \in hyphens : TRUE
                 year == ParseInt(SubSeq(t, 1, k - 1))
                 month == ParseInt(SubSeq(t, k + 1, Len(t)))
             IN  IF ~IsOk(year) \/ ~IsOk(month) THEN Err("InvalidBudgetMonth")
                 ELSE BudgetMonthNew(year.val, month.val)

-----------------------------------------------------------------------------
(* The schema's constraints (migrations), enforced by SQLite on each        *)
(* statement with PRAGMA foreign_keys = ON (crates/db/src/lib.rs).          *)

(* months.month UNIQUE *)
ViolatesUniqueMonth(s, text) ==
    \E m \in s.months : m.month = text

(* categories.name UNIQUE; the row being renamed does not collide with itself *)
ViolatesUniqueCategoryName(s, id, name) ==
    \E c \in s.categories : c.name = name /\ c.id /= id

(* budget_entries UNIQUE (month_id, category_id) *)
ViolatesUniqueEntry(s, month_id, category_id) ==
    \E e \in s.entries : e.month_id = month_id /\ e.category_id = category_id

(* budget_entries.month_id REFERENCES months, .category_id REFERENCES categories *)
ViolatesFkEntry(s, month_id, category_id) ==
    \/ ~\E m \in s.months : m.id = month_id
    \/ ~\E c \in s.categories : c.id = category_id

(* transactions.entry_id REFERENCES budget_entries: the child side *)
ViolatesFkTransaction(s, entry_id) ==
    ~\E e \in s.entries : e.id = entry_id

(* transactions.entry_id REFERENCES budget_entries: the parent side, a      *)
(* referenced entry row cannot be deleted                                   *)
ViolatesFkOnEntryDelete(s, entry_id) ==
    \E t \in s.transactions : t.entry_id = entry_id

-----------------------------------------------------------------------------
(* SqliteMonthRepository *)

Effect(s, r) == [store |-> s, res |-> r]

MapRowToMonth(row) ==
    LET month == BudgetMonthFromStr(row.month)
    IN  IF ~IsOk(month) THEN Err("Repository")
        ELSE Ok([id |-> row.id, month |-> month.val])

MonthRepoFindById(s, id) ==
    LET rows == {m \in s.months : m.id = id}
    IN  IF rows = {} THEN Ok(None)
        ELSE LET m == MapRowToMonth(CHOOSE r \in rows : TRUE)
             IN  IF IsOk(m) THEN Ok(Some(m.val)) ELSE m

(* SELECT * FROM months ORDER BY month DESC LIMIT 1 *)
MonthRepoFindLatest(s) ==
    IF s.months = {} THEN Ok(None)
    ELSE LET top == CHOOSE r \in s.months :
                        \A o \in s.months : ~TextLess(r.month, o.month)
             m == MapRowToMonth(top)
         IN  IF IsOk(m) THEN Ok(Some(m.val)) ELSE m

(* create() without the is_unique_violation branch: the constraint's error   *)
(* is reported as any other database error                                  *)
MonthRepoCreateUnmapped(s, new_month) ==
    LET id == s.nextId.month
        text == BudgetMonthToString(new_month.month)
    IN  IF ViolatesUniqueMonth(s, text)
        THEN Effect(s, Err("Repository"))
        ELSE Effect([s EXCEPT !.months = @ \cup {[id |-> id, month |-> text]},
                              !.nextId.month = @ + 1],
                    Ok([id |-> id, month |-> new_month.month]))

MonthRepoCreate(s, new_month) ==
    LET id == s.nextId.month
        text == BudgetMonthToString(new_month.month)
    IN  IF ViolatesUniqueMonth(s, text)
        THEN Effect(s, [tag |-> "AlreadyExists", month |-> text])
        ELSE LET s2 == [s EXCEPT !.months = @ \cup {[id |-> id, month |-> text]},
                                 !.nextId.month = @ + 1]
                 found == MonthRepoFindById(s2, id)
             IN  Effect(s2, IF ~IsOk(found) THEN found
                            ELSE IF found.val = None THEN Err("Repository")
                            ELSE Ok(Unwrap(found.val)))

-----------------------------------------------------------------------------
(* SqliteCategoryRepository *)

CategoryRepoFindById(s, id) ==
    LET rows == {c \in s.categories : c.id = id}
    IN  IF rows = {} THEN Ok(None) ELSE Ok(Some(CHOOSE r \in rows : TRUE))

CategoryRepoCreate(s, new_category) ==
    LET id == s.nextId.category
    IN  IF ViolatesUniqueCategoryName(s, id, new_category.name)
        THEN Effect(s, [tag |-> "NameAlreadyExists", name |-> new_category.name])
        ELSE LET s2 == [s EXCEPT !.categories = @ \cup {[id |-> id, name |-> new_category.name,
                                                          label |-> new_category.label]},
                                 !.nextId.category = @ + 1]
                 found == CategoryRepoFindById(s2, id)
             IN  Effect(s2, IF found.val = None THEN Err("Repository")
                            ELSE Ok(Unwrap(found.val)))

(* update_name() that writes the name whatever names the other rows have *)
CategoryRepoUpdateNameUnchecked(s, id, name) ==
    IF ~\E c \in s.categories : c.id = id THEN Effect(s, Err("NotFound"))
    ELSE LET s2 == [s EXCEPT !.categories =
                        {IF c.id = id THEN [c EXCEPT !.name = name] ELSE c : c \in @}]
             found == CategoryRepoFindById(s2, id)
         IN  Effect(s2, IF found.val = None THEN Err("Repository")
                        ELSE Ok(Unwrap(found.val)))

(* update_name() that meets the name's collision before it misses the row *)
CategoryRepoUpdateNameCollisionFirst(s, id, name) ==
    IF ViolatesUniqueCategoryName(s, id, name)
    THEN Effect(s, [tag |-> "NameAlreadyExists", name |-> name])
    ELSE IF ~\E c \in s.categories : c.id = id THEN Effect(s, Err("NotFound"))
    ELSE LET s2 == [s EXCEPT !.categories =
                        {IF c.id = id THEN [c EXCEPT !.name = name] ELSE c : c \in @}]
             found == CategoryRepoFindById(s2, id)
         IN  Effect(s2, IF found.val = None THEN Err("Repository")
                        ELSE Ok(Unwrap(found.val)))

(* UPDATE categories SET name = ? WHERE id = ? *)
CategoryRepoUpdateName(s, id, name) ==
    IF ~\E c \in s.categories : c.id = id THEN Effect(s, Err("NotFound"))
    ELSE IF ViolatesUniqueCategoryName(s, id, name)
    THEN Effect(s, [tag |-> "NameAlreadyExists", name |-> name])
    ELSE LET s2 == [s EXCEPT !.categories =
                        {IF c.id = id THEN [c EXCEPT !.name = name] ELSE c : c \in @}]
             found == CategoryRepoFindById(s2, id)
         IN  Effect(s2, IF found.val = None THEN Err("Repository")
                        ELSE Ok(Unwrap(found.val)))

(* name: Option<CategoryName>; label: Option<Option<String>>. When the      *)
(* UNIQUE constraint fails a name was bound, so unwrap_or_default has one    *)
CategoryRepoUpdate(s, id, name, label) ==
    IF ~IsSome(name) /\ ~IsSome(label)
    THEN LET found == CategoryRepoFindById(s, id)
         IN  Effect(s, IF found.val = None THEN Err("NotFound") ELSE Ok(Unwrap(found.val)))
    ELSE IF ~\E c \in s.categories : c.id = id THEN Effect(s, Err("NotFound"))
    ELSE IF IsSome(name) /\ ViolatesUniqueCategoryName(s, id, Unwrap(name))
    THEN Effect(s, [tag |-> "NameAlreadyExists", name |-> Unwrap(name)])
    ELSE LET s2 == [s EXCEPT !.categories =
                        {IF c.id = id
                         THEN [c EXCEPT !.name = IF IsSome(name) THEN Unwrap(name) ELSE @,
                                        !.label = IF IsSome(label) THEN Unwrap(label) ELSE @]
                         ELSE c : c \in @}]
             found == CategoryRepoFindById(s2, id)
         IN  Effect(s2, IF found.val = None THEN Err("Repository")
                        ELSE Ok(Unwrap(found.val)))

-----------------------------------------------------------------------------
(* SqliteBudgetEntryRepository *)

(* map_row_to_entry_with_category, on a row of budget_entries JOIN categories *)
MapRowToEntryWithCategory(e, c) ==
    [id |-> e.id, category |-> [id |-> c.id, name |-> c.name],
     budgeted |-> e.budgeted, due_day |-> e.due_day]

(* ORDER BY e.due_day ASC, c.name ASC: SQLite then puts the NULLs first *)
EntryRowBeforeNullsFirst(a, b) ==
    \/ ~IsSome(a.due_day) /\ IsSome(b.due_day)
    \/ IsSome(a.due_day) /\ IsSome(b.due_day) /\ Unwrap(a.due_day) < Unwrap(b.due_day)
    \/ /\ a.due_day = b.due_day
       /\ \/ TextLess(a.category.name, b.category.name)
          \/ a.category.name = b.category.name /\ a.id < b.id

(* ORDER BY e.due_day ASC NULLS LAST, c.name ASC; rows that tie come in id order *)
EntryRowBefore(a, b) ==
    \/ IsSome(a.due_day) /\ ~IsSome(b.due_day)
    \/ IsSome(a.due_day) /\ IsSome(b.due_day) /\ Unwrap(a.due_day) < Unwrap(b.due_day)
    \/ /\ a.due_day = b.due_day
       /\ \/ TextLess(a.category.name, b.category.name)
          \/ a.category.name = b.category.name /\ a.id < b.id

RECURSIVE SortEntryRows(_)
SortEntryRows(rows) ==
    IF rows = {} THEN <<>>
    ELSE LET first == CHOOSE x \in rows : \A y \in rows : x = y \/ EntryRowBefore(x, y)
         IN  <<first>> \o SortEntryRows(rows \ {first})

EntryRepoListByMonth(s, month_id, io_error) ==
    IF io_error THEN Err("Repository")
    ELSE Ok(SortEntryRows(
            {MapRowToEntryWithCategory(e, c) :
                <<e, c>> \in {x \in s.entries \X s.categories :
                                 x[1].month_id = month_id /\ x[1].category_id = x[2].id}}))

EntryRepoFindById(s, id) ==
    LET rows == {e \in s.entries : e.id = id}
    IN  IF rows = {} THEN Ok(None) ELSE Ok(Some(CHOOSE r \in rows : TRUE))

FetchEntryWithCategory(s, entry_id) ==
    LET rows == {x \in s.entries \X s.categories :
                    x[1].id = entry_id /\ x[1].category_id = x[2].id}
    IN  IF rows = {} THEN Err("NotFound")
        ELSE LET x == CHOOSE r \in rows : TRUE
             IN  Ok(MapRowToEntryWithCategory(x[1], x[2]))

(* create() without the branch for the UNIQUE violation: the constraint's    *)
(* error is reported as any other database error                            *)
EntryRepoCreateUnmapped(s, entry, io_error) ==
    LET id == s.nextId.entry
    IN  IF io_error \/ ViolatesUniqueEntry(s, entry.month_id, entry.category_id)
        THEN Effect(s, Err("Repository"))
        ELSE IF ViolatesFkEntry(s, entry.month_id, entry.category_id)
        THEN Effect(s, IF ~\E m \in s.months : m.id = entry.month_id
                       THEN Err("MonthNotFound") ELSE Err("CategoryNotFound"))
        ELSE LET s2 == [s EXCEPT !.entries = @ \cup
                            {[id |-> id, month_id |-> entry.month_id,
                              category_id |-> entry.category_id,
                              budgeted |-> entry.budgeted, due_day |-> entry.due_day]},
                                 !.nextId.entry = @ + 1]
             IN  Effect(s2, FetchEntryWithCategory(s2, id))

EntryRepoCreate(s, entry, io_error) ==
    LET id == s.nextId.entry
    IN  IF io_error THEN Effect(s, Err("Repository"))
        ELSE IF ViolatesUniqueEntry(s, entry.month_id, entry.category_id)
        THEN Effect(s, [tag |-> "CategoryAlreadyInMonth",
                        category_id |-> entry.category_id, month |-> entry.month_id])
        ELSE IF ViolatesFkEntry(s, entry.month_id, entry.category_id)
        THEN Effect(s, IF ~\E m \in s.months : m.id = entry.month_id
                       THEN Err("MonthNotFound") ELSE Err("CategoryNotFound"))
        ELSE LET s2 == [s EXCEPT !.entries = @ \cup
                            {[id |-> id, month_id |-> entry.month_id,
                              category_id |-> entry.category_id,
                              budgeted |-> entry.budgeted, due_day |-> entry.due_day]},
                                 !.nextId.entry = @ + 1]
             IN  Effect(s2, FetchEntryWithCategory(s2, id))

(* update() that binds no NULL: a due_day of Some(None) keeps the stored day *)
EntryRepoUpdateNoClear(s, id, budgeted, due_day) ==
    IF ~IsSome(budgeted) /\ ~IsSome(due_day) THEN Effect(s, FetchEntryWithCategory(s, id))
    ELSE IF ~\E e \in s.entries : e.id = id THEN Effect(s, Err("NotFound"))
    ELSE LET s2 == [s EXCEPT !.entries =
                        {IF e.id = id
                         THEN [e EXCEPT !.budgeted = IF IsSome(budgeted) THEN Unwrap(budgeted) ELSE @,
                                        !.due_day = IF IsSome(due_day) /\ IsSome(Unwrap(due_day))
                                                    THEN Unwrap(due_day) ELSE @]
                         ELSE e : e \in @}]
         IN  Effect(s2, FetchEntryWithCategory(s2, id))

(* budgeted: Option<Money>, due_day: Option<Option<DueDay>> *)
EntryRepoUpdate(s, id, budgeted, due_day) ==
    IF ~IsSome(budgeted) /\ ~IsSome(due_day) THEN Effect(s, FetchEntryWithCategory(s, id))
    ELSE IF ~\E e \in s.entries : e.id = id THEN Effect(s, Err("NotFound"))
    ELSE LET s2 == [s EXCEPT !.entries =
                        {IF e.id = id
                         THEN [e EXCEPT !.budgeted = IF IsSome(budgeted) THEN Unwrap(budgeted) ELSE @,
                                        !.due_day = IF IsSome(due_day) THEN Unwrap(due_day) ELSE @]
                         ELSE e : e \in @}]
         IN  Effect(s2, FetchEntryWithCategory(s2, id))

(* DELETE FROM budget_entries WHERE id = ?; any database error is a Repository error *)
EntryRepoDelete(s, id) ==
    IF ~\E e \in s.entries : e.id = id THEN Effect(s, Err("NotFound"))
    ELSE IF ViolatesFkOnEntryDelete(s, id) THEN Effect(s, Err("Repository"))
    ELSE Effect([s EXCEPT !.entries = {e \in @ : e.id /= id}], Ok(<<>>))

(* a count of the transactions of every entry of the entry's month *)
EntryRepoTransactionCountOfMonth(s, entry_id) ==
    Ok(Cardinality({t \in s.transactions :
                       \E e, o \in s.entries :
                           e.id = entry_id /\ o.id = t.entry_id /\ o.month_id = e.month_id}))

(* SELECT COUNT( * ) FROM transactions WHERE entry_id = ? *)
EntryRepoTransactionCount(s, entry_id) ==
    Ok(Cardinality({t \in s.transactions : t.entry_id = entry_id}))

-----------------------------------------------------------------------------
(* TransactionDate: Display is NaiveDate::format("%Y-%m-%d"); the rows hold  *)
(* that text and map_row_to_transaction parses it back                       *)

TransactionDateToString(d) ==
    << Digit((d.year \div 1000) % 10), Digit((d.year \div 100) % 10),
       Digit((d.year \div 10) % 10), Digit(d.year % 10), Hyphen,
       Digit((d.month \div 10) % 10), Digit(d.month % 10), Hyphen,
       Digit((d.day \div 10) % 10), Digit(d.day % 10) >>

TransactionDateFromStr(t) ==
    IF /\ Len(t) = 10
       /\ t[5] = Hyphen /\ t[8] = Hyphen
       /\ \A i \in {1, 2, 3, 4, 6, 7, 9, 10} : IsDigit(t[i])
    THEN Ok([year |-> DigitsValue(SubSeq(t, 1, 4)),
             month |-> DigitsValue(SubSeq(t, 6, 7)),
             day |-> DigitsValue(SubSeq(t, 9, 10))])
    ELSE Err("InvalidTransactionDate")

-----------------------------------------------------------------------------
(* SqliteTransactionRepository *)

MapRowToTransaction(row) ==
    LET date == TransactionDateFromStr(row.date)
    IN  IF ~IsOk(date) THEN Err("Repository")
        ELSE Ok([id |-> row.id, entry_id |-> row.entry_id, amount |-> row.amount,
                 date |-> date.val, title |-> row.title, created_at |-> row.created_at,
                 updated_at |-> row.updated_at])

(* ORDER BY t.date ASC, t.created_at ASC *)
TransactionRowBeforeOldestFirst(a, b, tie) ==
    \/ TextLess(a.date, b.date)
    \/ /\ a.date = b.date
       /\ \/ a.created_at < b.created_at
          \/ a.created_at = b.created_at /\ (IF tie THEN a.id < b.id ELSE a.id > b.id)

(* ORDER BY t.date DESC, t.created_at DESC. date is the text "YYYY-MM-DD";   *)
(* created_at is the text of Utc::now().format("%Y-%m-%dT%H:%M:%S%.3fZ"), of *)
(* fixed width, which compares as the milliseconds do. Rows that tie on both *)
(* come in an order SQLite chooses: tie tells whether that is by ascending   *)
(* or by descending id                                                       *)
TransactionRowBefore(a, b, tie) ==
    \/ TextLess(b.date, a.date)
    \/ /\ a.date = b.date
       /\ \/ a.created_at > b.created_at
          \/ a.created_at = b.created_at /\ (IF tie THEN a.id < b.id ELSE a.id > b.id)

RECURSIVE SortTransactionRows(_, _)
SortTransactionRows(rows, tie) ==
    IF rows = {} THEN <<>>
    ELSE LET first == CHOOSE x \in rows :
                          \A y \in rows : x = y \/ TransactionRowBefore(x, y, tie)
         IN  <<first>> \o SortTransactionRows(rows \ {first}, tie)

(* SELECT t.* FROM transactions t JOIN budget_entries e ON t.entry_id = e.id *)
(* WHERE e.month_id = ?; rows.iter().map(map_row_to_transaction).collect()   *)
TransactionRepoListByMonth(s, month_id, tie) ==
    LET rows == SortTransactionRows(
                    {t \in s.transactions :
                        \E e \in s.entries : e.id = t.entry_id /\ e.month_id = month_id}, tie)
        mapped == [i \in DOMAIN rows |-> MapRowToTransaction(rows[i])]
    IN  IF \E i \in DOMAIN mapped : ~IsOk(mapped[i]) THEN Err("Repository")
        ELSE Ok([i \in DOMAIN mapped |-> mapped[i].val])

TransactionRepoFindById(s, id) ==
    LET rows == {x \in s.transactions : x.id = id}
    IN  IF rows = {} THEN Ok(None)
        ELSE LET x == MapRowToTransaction(CHOOSE r \in rows : TRUE)
             IN  IF IsOk(x) THEN Ok(Some(x.val)) ELSE x

(* create() on a connection that does not check the reference to the entry *)
TransactionRepoCreateUnchecked(s, transaction, now) ==
    LET id == s.nextId.transaction
        s2 == [s EXCEPT !.transactions = @ \cup
                  {[id |-> id, entry_id |-> transaction.entry_id,
                    amount |-> transaction.amount,
                    date |-> TransactionDateToString(transaction.date),
                    title |-> transaction.title, created_at |-> now,
                    updated_at |-> now]},
                        !.nextId.transaction = @ + 1]
    IN  Effect(s2, Ok([id |-> id, entry_id |-> transaction.entry_id,
                       amount |-> transaction.amount, date |-> transaction.date,
                       title |-> transaction.title, created_at |-> now,
                       updated_at |-> now]))

(* now is Utc::now() at the call *)
TransactionRepoCreate(s, transaction, now) ==
    LET id == s.nextId.transaction
    IN  IF ViolatesFkTransaction(s, transaction.entry_id)
        THEN Effect(s, Err("EntryNotFound"))
        ELSE LET s2 == [s EXCEPT !.transactions = @ \cup
                            {[id |-> id, entry_id |-> transaction.entry_id,
                              amount |-> transaction.amount,
                              date |-> TransactionDateToString(transaction.date),
                              title |-> transaction.title, created_at |-> now,
                    updated_at |-> now]},
                                 !.nextId.transaction = @ + 1]
                 found == TransactionRepoFindById(s2, id)
             IN  Effect(s2, IF ~IsOk(found) THEN found
                            ELSE IF found.val = None THEN Err("Repository")
                            ELSE Ok(Unwrap(found.val)))

(* update() that binds no title when the title is to be cleared *)
TransactionRepoUpdateNoClear(s, id, entry_id, amount, date, title) ==
    IF ~IsSome(entry_id) /\ ~IsSome(amount) /\ ~IsSome(date) /\ ~IsSome(title)
    THEN LET found == TransactionRepoFindById(s, id)
         IN  Effect(s, IF ~IsOk(found) THEN found
                       ELSE IF found.val = None THEN Err("NotFound")
                       ELSE Ok(Unwrap(found.val)))
    ELSE IF ~\E x \in s.transactions : x.id = id THEN Effect(s, Err("NotFound"))
    ELSE IF IsSome(entry_id) /\ ViolatesFkTransaction(s, Unwrap(entry_id))
    THEN Effect(s, Err("EntryNotFound"))
    ELSE LET s2 == [s EXCEPT !.transactions =
                        {IF x.id = id
                         THEN [x EXCEPT
                                 !.entry_id = IF IsSome(entry_id) THEN Unwrap(entry_id) ELSE @,
                                 !.amount = IF IsSome(amount) THEN Unwrap(amount) ELSE @,
                                 !.date = IF IsSome(date)
                                          THEN TransactionDateToString(Unwrap(date)) ELSE @,
                                 !.title = IF IsSome(title) /\ IsSome(Unwrap(title))
                                           THEN Unwrap(title) ELSE @]
                         ELSE x : x \in @}]
             found == TransactionRepoFindById(s2, id)
         IN  Effect(s2, IF ~IsOk(found) THEN found
                        ELSE IF found.val = None THEN Err("Repository")
                        ELSE Ok(Unwrap(found.val)))

(* entry_id, amount, date: Option<_>; title: Option<Option<String>> *)
TransactionRepoUpdate(s, id, entry_id, amount, date, title) ==
    IF ~IsSome(entry_id) /\ ~IsSome(amount) /\ ~IsSome(date) /\ ~IsSome(title)
    THEN LET found == TransactionRepoFindById(s, id)
         IN  Effect(s, IF ~IsOk(found) THEN found
                       ELSE IF found.val = None THEN Err("NotFound")
                       ELSE Ok(Unwrap(found.val)))
    ELSE IF ~\E x \in s.transactions : x.id = id THEN Effect(s, Err("NotFound"))
    ELSE IF IsSome(entry_id) /\ ViolatesFkTransaction(s, Unwrap(entry_id))
    THEN Effect(s, Err("EntryNotFound"))
    ELSE LET s2 == [s EXCEPT !.transactions =
                        {IF x.id = id
                         THEN [x EXCEPT
                                 !.entry_id = IF IsSome(entry_id) THEN Unwrap(entry_id) ELSE @,
                                 !.amount = IF IsSome(amount) THEN Unwrap(amount) ELSE @,
                                 !.date = IF IsSome(date)
                                          THEN TransactionDateToString(Unwrap(date)) ELSE @,
                                 !.title = IF IsSome(title) THEN Unwrap(title) ELSE @]
                         ELSE x : x \in @}]
             found == TransactionRepoFindById(s2, id)
         IN  Effect(s2, IF ~IsOk(found) THEN found
                        ELSE IF found.val = None THEN Err("Repository")
                        ELSE Ok(Unwrap(found.val)))

(* delete() that does not look at rows_affected() *)
TransactionRepoDeleteUnchecked(s, id) ==
    Effect([s EXCEPT !.transactions = {x \in @ : x.id /= id}], Ok(<<>>))

(* DELETE FROM transactions WHERE id = ? *)
TransactionRepoDelete(s, id) ==
    IF ~\E x \in s.transactions : x.id = id THEN Effect(s, Err("NotFound"))
    ELSE Effect([s EXCEPT !.transactions = {x \in @ : x.id /= id}], Ok(<<>>))

RECURSIVE SumAmounts(_)
SumAmounts(rows) ==
    IF rows = {} THEN 0
    ELSE LET x == CHOOSE r \in rows : TRUE
         IN  x.amount + SumAmounts(rows \ {x})

(* SELECT COALESCE(SUM(amount), 0) FROM transactions WHERE entry_id = ? *)
TransactionRepoSumByEntry(s, entry_id) ==
    Ok(SumAmounts({x \in s.transactions : x.entry_id = entry_id}))

-----------------------------------------------------------------------------
(* MonthService *)

(* the source month when copy_from is only checked, not used *)
ResolveSourceMonthLatest(s, created, copy_from) ==
    LET latest == MonthRepoFindLatest(s)
    IN  IF IsSome(copy_from) /\ MonthRepoFindById(s, Unwrap(copy_from)).val = None
        THEN Err("NotFound")
        ELSE IF IsSome(latest.val) /\ Unwrap(latest.val).id /= created.id
        THEN Ok(Some(Unwrap(latest.val).id))
        ELSE Ok(None)

(* MonthService::create, the source month: copy_from if given (it must      *)
(* exist), else find_latest() unless that is the month just created         *)
ResolveSourceMonth(s, created, copy_from) ==
    IF IsSome(copy_from)
    THEN LET found == MonthRepoFindById(s, Unwrap(copy_from))
         IN  IF ~IsOk(found) THEN found
             ELSE IF found.val = None THEN Err("NotFound")
             ELSE Ok(Some(Unwrap(copy_from)))
    ELSE LET latest == MonthRepoFindLatest(s)
         IN  IF ~IsOk(latest) THEN latest
             ELSE IF IsSome(latest.val) /\ Unwrap(latest.val).id /= created.id
             THEN Ok(Some(Unwrap(latest.val).id))
             ELSE Ok(None)

(* a copy that leaves due_day out *)
CopyEntryNoDueDay(s, created, entry, io_error) ==
    LET r == EntryRepoCreate(s, [month_id |-> created.id,
                                 category_id |-> entry.category.id,
                                 budgeted |-> entry.budgeted,
                                 due_day |-> None], io_error)
    IN  IF IsOk(r.res) THEN r ELSE Effect(r.store, Err("Repository"))

(* a copy that, when it fails, takes the copies made so far back *)
CopyEntryRollback(s, created, entry, io_error) ==
    LET r == EntryRepoCreate(s, [month_id |-> created.id,
                                 category_id |-> entry.category.id,
                                 budgeted |-> entry.budgeted,
                                 due_day |-> entry.due_day], io_error)
    IN  IF IsOk(r.res) THEN r
        ELSE Effect([r.store EXCEPT !.entries = {e \in @ : e.month_id /= created.id}],
                    Err("Repository"))

(* MonthService::create, one turn of the copy loop: entry_repo.create of the *)
(* copy of source entry `entry`                                               *)
CopyEntry(s, created, entry, io_error) ==
    LET r == EntryRepoCreate(s, [month_id |-> created.id,
                                 category_id |-> entry.category.id,
                                 budgeted |-> entry.budgeted,
                                 due_day |-> entry.due_day], io_error)
    IN  IF IsOk(r.res) THEN r ELSE Effect(r.store, Err("Repository"))

(* the loop from source entry k on; the store fails the fault-th call of the *)
(* copy phase (call 1 is list_by_month, call k + 1 the k-th create)          *)
RECURSIVE CopyEntries(_, _, _, _, _)
CopyEntries(s, created, source_entries, k, fault) ==
    IF k > Len(source_entries) THEN Effect(s, Ok(created))
    ELSE LET r == CopyEntry(s, created, source_entries[k], fault = k + 1)
         IN  IF ~IsOk(r.res) THEN r
             ELSE CopyEntries(r.store, created, source_entries, k + 1, fault)

(* create() that resolves the source month before it looks at `empty` *)
MonthServiceCreateResolveFirst(s, month, copy_from, empty, fault) ==
    LET c == MonthRepoCreate(s, [month |-> month])
    IN  IF ~IsOk(c.res) THEN c
        ELSE LET source == ResolveSourceMonth(c.store, c.res.val, copy_from)
             IN  IF ~IsOk(source) THEN Effect(c.store, source)
                 ELSE IF empty \/ ~IsSome(source.val) THEN c
                 ELSE LET listed == EntryRepoListByMonth(c.store, Unwrap(source.val), fault = 1)
                      IN  IF ~IsOk(listed) THEN Effect(c.store, Err("Repository"))
                          ELSE CopyEntries(c.store, c.res.val, listed.val, 1, fault)

(* create() that verifies copy_from before it creates the month *)
MonthServiceCreateSourceFirst(s, month, copy_from, empty, fault) ==
    IF ~empty /\ IsSome(copy_from) /\ MonthRepoFindById(s, Unwrap(copy_from)).val = None
    THEN Effect(s, Err("NotFound"))
    ELSE LET c == MonthRepoCreate(s, [month |-> month])
         IN  IF ~IsOk(c.res) THEN c
             ELSE IF empty THEN c
             ELSE LET source == ResolveSourceMonth(c.store, c.res.val, copy_from)
                  IN  IF ~IsOk(source) THEN Effect(c.store, source)
                      ELSE IF ~IsSome(source.val) THEN c
                      ELSE LET listed == EntryRepoListByMonth(c.store, Unwrap(source.val),
                                                              fault = 1)
                           IN  IF ~IsOk(listed) THEN Effect(c.store, Err("Repository"))
                               ELSE CopyEntries(c.store, c.res.val, listed.val, 1, fault)

(* fault = 0: the store answers every call of the copy phase *)
MonthServiceCreate(s, month, copy_from, empty, fault) ==
    LET c == MonthRepoCreate(s, [month |-> month])
    IN  IF ~IsOk(c.res) THEN c
        ELSE IF empty THEN c
        ELSE LET source == ResolveSourceMonth(c.store, c.res.val, copy_from)
             IN  IF ~IsOk(source) THEN Effect(c.store, source)
                 ELSE IF ~IsSome(source.val) THEN c
                 ELSE LET listed == EntryRepoListByMonth(c.store, Unwrap(source.val), fault = 1)
                      IN  IF ~IsOk(listed) THEN Effect(c.store, Err("Repository"))
                          ELSE CopyEntries(c.store, c.res.val, listed.val, 1, fault)

-----------------------------------------------------------------------------
(* EntryService *)

EntryServiceListByMonth(s, month_id) ==
    LET month == MonthRepoFindById(s, month_id)
    IN  IF ~IsOk(month) THEN Err("Repository")
        ELSE IF month.val = None THEN Err("MonthNotFound")
        ELSE EntryRepoListByMonth(s, month_id, FALSE)

(* create() that looks the category up before the month *)
EntryServiceCreateCategoryFirst(s, month_id, category_id, budgeted, due_day) ==
    LET month == MonthRepoFindById(s, month_id)
        category == CategoryRepoFindById(s, category_id)
    IN  IF category.val = None THEN Effect(s, Err("CategoryNotFound"))
        ELSE IF ~IsOk(month) THEN Effect(s, Err("Repository"))
        ELSE IF month.val = None THEN Effect(s, Err("MonthNotFound"))
        ELSE EntryRepoCreate(s, [month_id |-> month_id, category_id |-> category_id,
                                 budgeted |-> budgeted, due_day |-> due_day], FALSE)

EntryServiceCreate(s, month_id, category_id, budgeted, due_day) ==
    LET month == MonthRepoFindById(s, month_id)
        category == CategoryRepoFindById(s, category_id)
    IN  IF ~IsOk(month) THEN Effect(s, Err("Repository"))
        ELSE IF month.val = None THEN Effect(s, Err("MonthNotFound"))
        ELSE IF category.val = None THEN Effect(s, Err("CategoryNotFound"))
        ELSE EntryRepoCreate(s, [month_id |-> month_id, category_id |-> category_id,
                                 budgeted |-> budgeted, due_day |-> due_day], FALSE)

EntryServiceUpdate(s, id, budgeted, due_day) ==
    EntryRepoUpdate(s, id, budgeted, due_day)

(* delete() that lets an entry with a single transaction through *)
EntryServiceDeleteAboveOne(s, id) ==
    LET count == EntryRepoTransactionCount(s, id)
    IN  IF count.val > 1
        THEN Effect(s, [tag |-> "HasTransactions", transaction_count |-> count.val])
        ELSE EntryRepoDelete(s, id)

EntryServiceDelete(s, id) ==
    LET count == EntryRepoTransactionCount(s, id)
    IN  IF count.val > 0
        THEN Effect(s, [tag |-> "HasTransactions", transaction_count |-> count.val])
        ELSE EntryRepoDelete(s, id)

-----------------------------------------------------------------------------
(* CategoryService *)

(* NewCategory { name }: a category is created with no label *)
CategoryServiceCreate(s, name) ==
    CategoryRepoCreate(s, [name |-> name, label |-> None])

CategoryServiceRename(s, id, name) ==
    CategoryRepoUpdateName(s, id, name)

(* update(id, name?, label?): the partial update of the repository *)
CategoryServiceUpdate(s, id, name, label) ==
    CategoryRepoUpdate(s, id, name, label)

-----------------------------------------------------------------------------
(* TransactionService *)

MAX_TITLE_LENGTH == 50

(* char::is_whitespace: the Unicode White_Space code points *)
IsWhitespace(c) ==
    \/ c \in {9, 10, 11, 12, 13, 32, 133, 160, 5760, 8232, 8233, 8239, 8287, 12288}
    \/ 8192 <= c /\ c <= 8202

RECURSIVE TrimStart(_)
TrimStart(t) ==
    IF t /= <<>> /\ IsWhitespace(t[1]) THEN TrimStart(Tail(t)) ELSE t

RECURSIVE TrimEnd(_)
TrimEnd(t) ==
    IF t /= <<>> /\ IsWhitespace(t[Len(t)]) THEN TrimEnd(SubSeq(t, 1, Len(t) - 1)) ELSE t

Trim(t) == TrimEnd(TrimStart(t))

(* String::len: the length in bytes of the UTF-8 text, one byte for each    *)
(* char and one more from each of U+0080, U+0800 and U+10000 on              *)
StrLen(t) ==
    Len(t) + Cardinality({i \in DOMAIN t : t[i] >= 128})
           + Cardinality({i \in DOMAIN t : t[i] >= 2048})
           + Cardinality({i \in DOMAIN t : t[i] >= 65536})

(* title: Option<String> *)
NormalizeTitle(title) ==
    IF ~IsSome(title) THEN None
    ELSE IF Trim(Unwrap(title)) = <<>> THEN None
    ELSE Some(Trim(Unwrap(title)))

ValidateTitleLength(title) ==
    IF IsSome(title) /\ StrLen(Unwrap(title)) > MAX_TITLE_LENGTH
    THEN [tag |-> "TitleTooLong", length |-> StrLen(Unwrap(title)), max |-> MAX_TITLE_LENGTH]
    ELSE Ok(<<>>)

(* create() that stores the title as it was given *)
TransactionServiceCreateRawTitle(s, entry_id, amount, date, title, now) ==
    IF amount < 0 THEN Effect(s, [tag |-> "InvalidAmount", value |-> amount])
    ELSE IF ~IsOk(ValidateTitleLength(NormalizeTitle(title)))
    THEN Effect(s, ValidateTitleLength(NormalizeTitle(title)))
    ELSE IF EntryRepoFindById(s, entry_id).val = None THEN Effect(s, Err("EntryNotFound"))
    ELSE TransactionRepoCreate(s, [entry_id |-> entry_id, amount |-> amount, date |-> date,
                                   title |-> title], now)

(* create() that validates the title before the amount *)
TransactionServiceCreateTitleFirst(s, entry_id, amount, date, title, now) ==
    IF ~IsOk(ValidateTitleLength(NormalizeTitle(title)))
    THEN Effect(s, ValidateTitleLength(NormalizeTitle(title)))
    ELSE IF amount < 0 THEN Effect(s, [tag |-> "InvalidAmount", value |-> amount])
    ELSE IF EntryRepoFindById(s, entry_id).val = None THEN Effect(s, Err("EntryNotFound"))
    ELSE TransactionRepoCreate(s, [entry_id |-> entry_id, amount |-> amount, date |-> date,
                                   title |-> NormalizeTitle(title)], now)

TransactionServiceCreate(s, entry_id, amount, date, title, now) ==
    IF amount < 0 THEN Effect(s, [tag |-> "InvalidAmount", value |-> amount])
    ELSE IF ~IsOk(ValidateTitleLength(NormalizeTitle(title)))
    THEN Effect(s, ValidateTitleLength(NormalizeTitle(title)))
    ELSE IF EntryRepoFindById(s, entry_id).val = None THEN Effect(s, Err("EntryNotFound"))
    ELSE TransactionRepoCreate(s, [entry_id |-> entry_id, amount |-> amount, date |-> date,
                                   title |-> NormalizeTitle(title)], now)

(* title.map(normalize_title): Option<Option<String>> *)
NormalizeTitleUpdate(title) ==
    IF IsSome(title) THEN Some(NormalizeTitle(Unwrap(title))) ELSE None

(* update() that stores a supplied title as it was given *)
TransactionServiceUpdateRawTitle(s, id, entry_id, amount, date, title) ==
    IF IsSome(entry_id) /\ EntryRepoFindById(s, Unwrap(entry_id)).val = None
    THEN Effect(s, Err("EntryNotFound"))
    ELSE IF IsSome(amount) /\ Unwrap(amount) < 0
    THEN Effect(s, [tag |-> "InvalidAmount", value |-> Unwrap(amount)])
    ELSE IF IsSome(title) /\ ~IsOk(ValidateTitleLength(NormalizeTitle(Unwrap(title))))
    THEN Effect(s, ValidateTitleLength(NormalizeTitle(Unwrap(title))))
    ELSE TransactionRepoUpdate(s, id, entry_id, amount, date, title)

(* update() that does not look at the amount *)
TransactionServiceUpdateAnyAmount(s, id, entry_id, amount, date, title) ==
    IF IsSome(entry_id) /\ EntryRepoFindById(s, Unwrap(entry_id)).val = None
    THEN Effect(s, Err("EntryNotFound"))
    ELSE IF IsSome(title) /\ ~IsOk(ValidateTitleLength(NormalizeTitle(Unwrap(title))))
    THEN Effect(s, ValidateTitleLength(NormalizeTitle(Unwrap(title))))
    ELSE TransactionRepoUpdate(s, id, entry_id, amount, date, NormalizeTitleUpdate(title))

(* update() that takes a blank title for a title that is not supplied *)
TransactionServiceUpdateKeepBlank(s, id, entry_id, amount, date, title) ==
    IF IsSome(entry_id) /\ EntryRepoFindById(s, Unwrap(entry_id)).val = None
    THEN Effect(s, Err("EntryNotFound"))
    ELSE IF IsSome(amount) /\ Unwrap(amount) < 0
    THEN Effect(s, [tag |-> "InvalidAmount", value |-> Unwrap(amount)])
    ELSE IF IsSome(title) /\ ~IsOk(ValidateTitleLength(NormalizeTitle(Unwrap(title))))
    THEN Effect(s, ValidateTitleLength(NormalizeTitle(Unwrap(title))))
    ELSE TransactionRepoUpdate(s, id, entry_id, amount, date,
                               IF IsSome(title) /\ IsSome(Unwrap(title))
                                  /\ ~IsSome(NormalizeTitle(Unwrap(title)))
                               THEN None ELSE NormalizeTitleUpdate(title))

TransactionServiceUpdate(s, id, entry_id, amount, date, title) ==
    IF IsSome(entry_id) /\ EntryRepoFindById(s, Unwrap(entry_id)).val = None
    THEN Effect(s, Err("EntryNotFound"))
    ELSE IF IsSome(amount) /\ Unwrap(amount) < 0
    THEN Effect(s, [tag |-> "InvalidAmount", value |-> Unwrap(amount)])
    ELSE IF IsSome(title) /\ ~IsOk(ValidateTitleLength(NormalizeTitle(Unwrap(title))))
    THEN Effect(s, ValidateTitleLength(NormalizeTitle(Unwrap(title))))
    ELSE TransactionRepoUpdate(s, id, entry_id, amount, date, NormalizeTitleUpdate(title))

TransactionServiceListByMonth(s, month_id, tie) ==
    TransactionRepoListByMonth(s, month_id, tie)

TransactionServiceDelete(s, id) ==
    TransactionRepoDelete(s, id)

-----------------------------------------------------------------------------
(* SummaryService. Money is an i64; the model's amounts stay far from its    *)
(* limits, so Money's + and - are the integers'.                             *)

(* derive_status that takes a zero budget for on budget whatever was paid *)
DeriveStatusZeroFirst(b, p) ==
    IF b = 0 THEN "on_budget"
    ELSE IF p = 0 /\ b > 0 THEN "unpaid"
    ELSE IF p > 0 /\ p < b THEN "underspent"
    ELSE IF p = b THEN "on_budget"
    ELSE "overspent"

DeriveStatus(b, p) ==
    IF b = 0 /\ p = 0 THEN "on_budget"
    ELSE IF p = 0 /\ b > 0 THEN "unpaid"
    ELSE IF p > 0 /\ p < b THEN "underspent"
    ELSE IF p = b THEN "on_budget"
    ELSE "overspent"

SummaryStart ==
    [categories |-> <<>>, total_budgeted |-> 0, total_paid |-> 0]

(* a turn of the loop that overwrites total_paid *)
SummaryAddLastPaid(acc, entry, paid) ==
    [categories |-> Append(acc.categories,
                           [entry_id |-> entry.id, category |-> entry.category,
                            budgeted |-> entry.budgeted, paid |-> paid,
                            remaining |-> entry.budgeted - paid,
                            status |-> DeriveStatus(entry.budgeted, paid)]),
     total_budgeted |-> acc.total_budgeted + entry.budgeted,
     total_paid |-> paid]

(* get_month_summary, one turn of the loop: entry is the listed entry, paid  *)
(* the answer of sum_by_entry                                                *)
SummaryAdd(acc, entry, paid) ==
    [categories |-> Append(acc.categories,
                           [entry_id |-> entry.id, category |-> entry.category,
                            budgeted |-> entry.budgeted, paid |-> paid,
                            remaining |-> entry.budgeted - paid,
                            status |-> DeriveStatus(entry.budgeted, paid)]),
     total_budgeted |-> acc.total_budgeted + entry.budgeted,
     total_paid |-> acc.total_paid + paid]

(* a summary whose remaining is total_paid - total_budgeted *)
SummaryFinishPaidLessBudgeted(month, acc) ==
    [month |-> month.month, total_budgeted |-> acc.total_budgeted,
     total_paid |-> acc.total_paid,
     remaining |-> acc.total_paid - acc.total_budgeted,
     categories |-> acc.categories]

SummaryFinish(month, acc) ==
    [month |-> month.month, total_budgeted |-> acc.total_budgeted,
     total_paid |-> acc.total_paid,
     remaining |-> acc.total_budgeted - acc.total_paid,
     categories |-> acc.categories]

RECURSIVE SummaryLoop(_, _, _, _)
SummaryLoop(s, listed, k, acc) ==
    IF k > Len(listed) THEN acc
    ELSE SummaryLoop(s, listed, k + 1,
                     SummaryAdd(acc, listed[k], TransactionRepoSumByEntry(s, listed[k].id).val))

SummaryServiceGetMonthSummary(s, month_id) ==
    LET month == MonthRepoFindById(s, month_id)
        listed == EntryRepoListByMonth(s, month_id, FALSE)
    IN  IF ~IsOk(month) THEN month
        ELSE IF month.val = None THEN Err("NotFound")
        ELSE IF ~IsOk(listed) THEN Err("Repository")
        ELSE Ok(SummaryFinish(Unwrap(month.val), SummaryLoop(s, listed.val, 1, SummaryStart)))

-----------------------------------------------------------------------------
(* The calls the model makes: the arguments are drawn from these sets *)

BudgetMonths ==
    {[year |-> 2025, month |-> 12], [year |-> 2026, month |-> 1], [year |-> 2026, month |-> 2]}

(* "food", "rent" *)
CategoryNames == {<<102, 111, 111, 100>>, <<114, 101, 110, 116>>}

(* budgeted and due_day of a new entry *)
EntryValues == {[budgeted |-> 10, due_day |-> Some(15)], [budgeted |-> 0, due_day |-> None]}

LedgerEntryValues == {[budgeted |-> 10, due_day |-> Some(15)]}

Budgets == {0, 10}
DueDays == {None, Some(15)}
Amounts == {-1, 5, 15}
LedgerAmounts == {-1, 5}
Dates == {[year |-> 2026, month |-> 1, day |-> 10]}
Titles == {None}

(* an id no row has *)
UnknownId == 0

MonthIds == {m.id : m \in months} \cup {UnknownId}
CategoryIds == {c.id : c \in categories} \cup {UnknownId}
EntryIds == {e.id : e \in entries} \cup {UnknownId}
TransactionIds == {x.id : x \in transactions} \cup {UnknownId}

Optional(S) == {None} \cup {Some(x) : x \in S}

(* the ids handed out stay within the limit of each table *)
WithinBounds(s, limit) ==
    /\ s.nextId.month <= limit.month + 1
    /\ s.nextId.category <= limit.category + 1
    /\ s.nextId.entry <= limit.entry + 1
    /\ s.nextId.transaction <= limit.transaction + 1

(* Utc::now() does not run backwards *)
Clock(s) ==
    IF s.transactions = {} THEN 1
    ELSE CHOOSE n \in {x.created_at : x \in s.transactions} :
            \A x \in s.transactions : x.created_at <= n

Init ==
    /\ months = {}
    /\ categories = {}
    /\ entries = {}
    /\ transactions = {}
    /\ nextId = EmptyStore.nextId
    /\ procs = <<>>

(* a service call run from start to end with no other call in between *)
Call(effect, limit) ==
    /\ WithinBounds(effect.store, limit)
    /\ Commit(effect.store)
    /\ UNCHANGED procs

(* a read leaves the store as it is, whatever it returns *)
Query(res) ==
    /\ res.tag \in {"Ok", "NotFound", "MonthNotFound"}
    /\ UNCHANGED vars

CategoryCreate(limit, names) ==
    \E name \in names :
        Call(CategoryServiceCreate(Store, name), limit)

CategoryRename(limit, names) ==
    \E id \in CategoryIds, name \in names :
        Call(CategoryServiceRename(Store, id, name), limit)

(* labels: the values of label: Option<String> a call may set *)
CategoryUpdate(limit, names, labels) ==
    \E id \in CategoryIds, name \in Optional(names), label \in Optional(labels) :
        Call(CategoryServiceUpdate(Store, id, name, label), limit)

(* fault > 0: the store fails the fault-th call of the copy phase, a call    *)
(* the handler does make                                                     *)
MonthCreate(limit, monthValues, copyFroms, empties, faults) ==
    \E month \in monthValues, copy_from \in copyFroms, empty \in empties, fault \in faults :
        /\ fault > 0 =>
              MonthServiceCreate(Store, month, copy_from, empty, fault).res.tag = "Repository"
        /\ Call(MonthServiceCreate(Store, month, copy_from, empty, fault), limit)

EntryCreate(limit, values) ==
    \E month_id \in MonthIds, category_id \in CategoryIds, v \in values :
        Call(EntryServiceCreate(Store, month_id, category_id, v.budgeted, v.due_day), limit)

EntryUpdate(limit, budgets, dueDays) ==
    \E id \in EntryIds, budgeted \in budgets, due_day \in dueDays :
        Call(EntryServiceUpdate(Store, id, budgeted, due_day), limit)

EntryDelete(limit) ==
    \E id \in EntryIds :
        Call(EntryServiceDelete(Store, id), limit)

(* ticks: by how much the clock has advanced since the last transaction *)
TransactionCreate(limit, amounts, dates, titles, ticks) ==
    \E entry_id \in EntryIds, amount \in amounts, date \in dates, title \in titles,
       now \in {Clock(Store) + d : d \in ticks} :
        Call(TransactionServiceCreate(Store, entry_id, amount, date, title, now), limit)

(* the fields a call of update may supply: entry_id, amount and date are     *)
(* Option<_>, title is Option<Option<String>>                                *)
Patches(entryIds, amounts, dates, titles) ==
    [entry_id : Optional(entryIds), amount : Optional(amounts), date : Optional(dates),
     title : Optional(titles)]

Supplied(patch) ==
    {f \in {"entry_id", "amount", "date", "title"} : IsSome(patch[f])}

TransactionUpdate(limit, patches) ==
    \E id \in TransactionIds, patch \in patches :
        Call(TransactionServiceUpdate(Store, id, patch.entry_id, patch.amount, patch.date,
                                      patch.title), limit)

TransactionDelete(limit) ==
    \E id \in TransactionIds :
        Call(TransactionServiceDelete(Store, id), limit)

TransactionListByMonth ==
    \E month_id \in MonthIds, tie \in BOOLEAN :
        Query(TransactionServiceListByMonth(Store, month_id, tie))

EntryListByMonth ==
    \E month_id \in MonthIds :
        Query(EntryServiceListByMonth(Store, month_id))

GetMonthSummary ==
    \E month_id \in MonthIds :
        Query(SummaryServiceGetMonthSummary(Store, month_id))

-----------------------------------------------------------------------------
(* Spec: months, categories and entries; month creation with every choice    *)
(* of copy_from, empty and store fault                                       *)

SpecLimit ==
    [month |-> MaxMonthRows, category |-> MaxCategoryRows,
     entry |-> MaxEntryRows, transaction |-> 0]

Next ==
    \/ CategoryCreate(SpecLimit, CategoryNames)
    \/ MonthCreate(SpecLimit, BudgetMonths, Optional(MonthIds), BOOLEAN, 0..MaxFault)
    \/ nextId.entry <= MaxEntryCalls /\ EntryCreate(SpecLimit, EntryValues)

Spec == Init /\ [][Next]_vars

-----------------------------------------------------------------------------
(* MonthService.create: what the claims about it say of every store Spec     *)
(* reaches and of every call that can be made on it                          *)

CopyFroms == Optional(MonthIds)
Faults == 0..MaxFault

EntriesOf(s, month_id) == {e \in s.entries : e.month_id = month_id}

(* what a copy keeps of an entry *)
Copied(rows) ==
    {[category_id |-> e.category_id, budgeted |-> e.budgeted, due_day |-> e.due_day] : e \in rows}

MonthExists(s, month) == \E m \in s.months : m.month = BudgetMonthToString(month)

(* the latest month of the store *)
LatestMonth(s) ==
    CHOOSE m \in s.months : \A o \in s.months : ~TextLess(m.month, o.month)

(* C1: create(month, copy_from = none, empty = false) on a store that holds  *)
(* another month copies every entry of the latest of the months that existed *)
(* before the call.                                                          *)
C1_CopiesLatestOtherMonth ==
    \A month \in BudgetMonths :
        LET r == MonthServiceCreate(Store, month, None, FALSE, 0)
        IN  (months /= {} /\ IsOk(r.res)) =>
                Copied(EntriesOf(r.store, r.res.val.id))
                    = Copied(EntriesOf(Store, LatestMonth(Store).id))

(* C2: no two Month records have the same BudgetMonth, and create of a month *)
(* that exists fails with AlreadyExists{month} and leaves months and entries *)
(* as they were, whatever copy_from, empty and the store's faults.           *)
C2_OneMonthPerBudgetMonth ==
    /\ \A a, b \in months : a.month = b.month => a = b
    /\ \A month \in BudgetMonths, copy_from \in CopyFroms, empty \in BOOLEAN, fault \in Faults :
           MonthExists(Store, month) =>
               LET r == MonthServiceCreate(Store, month, copy_from, empty, fault)
               IN  /\ r.res = [tag |-> "AlreadyExists", month |-> BudgetMonthToString(month)]
                   /\ r.store = Store

(* a duplicate create on a store whose months have entries to copy *)
C2_Witness ==
    \E month \in BudgetMonths :
        /\ MonthExists(Store, month)
        /\ Cardinality(months) >= 2
        /\ entries /= {}
        /\ MonthServiceCreate(Store, month, None, FALSE, 0).res.tag = "AlreadyExists"

(* the first call of create, and the source month it resolves next *)
Created(s, month) == MonthRepoCreate(s, [month |-> month])

SourceOf(s, month, copy_from) ==
    ResolveSourceMonth(Created(s, month).store, Created(s, month).res.val, copy_from)

(* C6: after a create that succeeds and copies, the entries of the new month *)
(* are the source month's entries one for one, with the same category_id,    *)
(* budgeted and due_day, under ids no entry had; every entry that was there, *)
(* the source's among them, is as it was.                                    *)
C6_CopyIsOneToOne ==
    \A month \in BudgetMonths, copy_from \in CopyFroms, fault \in Faults :
        LET r == MonthServiceCreate(Store, month, copy_from, FALSE, fault)
            fresh == EntriesOf(r.store, r.res.val.id)
            source == EntriesOf(Store, Unwrap(SourceOf(Store, month, copy_from).val))
        IN  (/\ IsOk(r.res)
             /\ IsOk(SourceOf(Store, month, copy_from))
             /\ IsSome(SourceOf(Store, month, copy_from).val)) =>
                /\ Copied(fresh) = Copied(source)
                /\ Cardinality(fresh) = Cardinality(source)
                /\ \A e \in fresh : \A o \in entries : e.id /= o.id
                /\ \A a, b \in fresh : a.id = b.id => a = b
                /\ r.store.entries \ fresh = entries

(* a create that copies two entries that differ in budgeted and due_day *)
C6_Witness ==
    \E month \in BudgetMonths, copy_from \in CopyFroms :
        LET r == MonthServiceCreate(Store, month, copy_from, FALSE, 0)
        IN  /\ IsOk(r.res)
            /\ Cardinality(EntriesOf(r.store, r.res.val.id)) = 2
            /\ Cardinality(Copied(EntriesOf(r.store, r.res.val.id))) = 2
            /\ \E e \in EntriesOf(r.store, r.res.val.id) : e.due_day /= None

(* C7: create with empty = true of a month that is not there succeeds and    *)
(* creates no entry, whatever months exist and whatever copy_from is, an id  *)
(* of no month included.                                                     *)
C7_EmptyCreatesNoEntries ==
    \A month \in BudgetMonths, copy_from \in CopyFroms, fault \in Faults :
        ~MonthExists(Store, month) =>
            LET r == MonthServiceCreate(Store, month, copy_from, TRUE, fault)
            IN  /\ IsOk(r.res)
                /\ r.res.val.month = month
                /\ r.store.months = months \cup
                       {[id |-> r.res.val.id, month |-> BudgetMonthToString(month)]}
                /\ r.store.entries = entries
                /\ EntriesOf(r.store, r.res.val.id) = {}

(* an empty create with an unknown copy_from, on a store with entries to copy *)
C7_Witness ==
    \E month \in BudgetMonths :
        /\ ~MonthExists(Store, month)
        /\ entries /= {}
        /\ IsOk(MonthServiceCreate(Store, month, Some(UnknownId), TRUE, 0).res)
        /\ IsOk(MonthServiceCreate(Store, month, None, TRUE, 0).res)

(* C8: create with empty = false and copy_from = id of a month that is not   *)
(* there: when id is a stored month, the new month gets that month's entries *)
(* and no others, later months notwithstanding; when it is not, the call     *)
(* fails with NotFound and no entry is created.                              *)
C8_CopyFromIsTheSource ==
    \A month \in BudgetMonths, id \in MonthIds :
        ~MonthExists(Store, month) =>
            LET r == MonthServiceCreate(Store, month, Some(id), FALSE, 0)
            IN  IF \E m \in months : m.id = id
                THEN /\ IsOk(r.res)
                     /\ Copied(EntriesOf(r.store, r.res.val.id)) = Copied(EntriesOf(Store, id))
                     /\ r.store.entries \ EntriesOf(r.store, r.res.val.id) = entries
                ELSE /\ r.res = Err("NotFound")
                     /\ r.store.entries = entries

(* a create that copies from a month while a later month with other entries  *)
(* exists, on a store where an unknown copy_from gives NotFound              *)
C8_Witness ==
    \E month \in BudgetMonths, source \in months, later \in months :
        /\ ~MonthExists(Store, month)
        /\ TextLess(source.month, later.month)
        /\ EntriesOf(Store, source.id) /= {}
        /\ Copied(EntriesOf(Store, source.id)) /= Copied(EntriesOf(Store, later.id))
        /\ IsOk(MonthServiceCreate(Store, month, Some(source.id), FALSE, 0).res)
        /\ MonthServiceCreate(Store, month, Some(UnknownId), FALSE, 0).res.tag = "NotFound"

(* C9: when the store fails list_by_month of the source, or the create of    *)
(* the k-th copy, create returns a Repository error; the new Month record    *)
(* and the k - 1 copies made before stay in the store.                       *)
C9_NoRollback ==
    \A month \in BudgetMonths, copy_from \in CopyFroms, fault \in 1..MaxFault :
        LET r == MonthServiceCreate(Store, month, copy_from, FALSE, fault)
            ok == MonthServiceCreate(Store, month, copy_from, FALSE, 0)
            created == Created(Store, month).res.val
            source == EntryRepoListByMonth(Store, Unwrap(SourceOf(Store, month, copy_from).val),
                                           FALSE).val
        IN  (IsOk(ok.res) /\ IsSome(SourceOf(Store, month, copy_from).val)
                /\ fault <= Len(source) + 1) =>
                /\ r.res = Err("Repository")
                /\ r.store.months = months \cup
                       {[id |-> created.id, month |-> BudgetMonthToString(month)]}
                /\ Cardinality(EntriesOf(r.store, created.id)) = IF fault = 1 THEN 0 ELSE fault - 2
                /\ Copied(EntriesOf(r.store, created.id))
                       = Copied({e \in entries : \E k \in 1..(fault - 2) : e.id = source[k].id})
                /\ r.store.entries \ EntriesOf(r.store, created.id) = entries

(* the create of the second copy fails: the month and the first copy stay *)
C9_Witness ==
    \E month \in BudgetMonths, copy_from \in CopyFroms :
        LET r == MonthServiceCreate(Store, month, copy_from, FALSE, 3)
        IN  /\ r.res = Err("Repository")
            /\ MonthExists(r.store, month)
            /\ ~MonthExists(Store, month)
            /\ \E m \in r.store.months :
                   /\ m.month = BudgetMonthToString(month)
                   /\ Cardinality(EntriesOf(r.store, m.id)) = 1

(* the arguments of EntryService::update *)
UpdateBudgets == Optional({0, 25})
UpdateDueDays == Optional({None, Some(1), Some(15)})

(* the entry after an update: a supplied field is replaced, the others stay *)
Updated(e, budgeted, due_day) ==
    [id |-> e.id, month_id |-> e.month_id, category_id |-> e.category_id,
     budgeted |-> IF budgeted = None THEN e.budgeted ELSE budgeted[1],
     due_day |-> IF due_day = None THEN e.due_day ELSE due_day[1]]

(* C21: EntryService::update(id, budgeted?, due_day?) changes exactly the    *)
(* supplied fields of entry id (due_day: not supplied keeps the day, null    *)
(* clears it, a value sets it), leaves its month, its category and every     *)
(* other entry as they were, and returns the entry as stored; on an id that  *)
(* names no entry it fails with NotFound and changes nothing, also when no   *)
(* field is supplied                                                         *)
C21_UpdateChangesSuppliedFields ==
    \A id \in EntryIds, budgeted \in UpdateBudgets, due_day \in UpdateDueDays :
        LET r == EntryServiceUpdate(Store, id, budgeted, due_day)
            found == {e \in entries : e.id = id}
        IN  IF found = {}
            THEN r.res = Err("NotFound") /\ r.store = Store
            ELSE \E e \in found :
                     /\ IsOk(r.res)
                     /\ r.store = [Store EXCEPT !.entries =
                                       (@ \ {e}) \cup {Updated(e, budgeted, due_day)}]
                     /\ r.res.val.id = id
                     /\ r.res.val.category.id = e.category_id
                     /\ r.res.val.budgeted = Updated(e, budgeted, due_day).budgeted
                     /\ r.res.val.due_day = Updated(e, budgeted, due_day).due_day

(* an entry due on a day has its day cleared next to another entry of the    *)
(* same month, and an update without fields of an unknown id fails           *)
C21_Witness ==
    \E e \in entries, o \in entries :
        LET r == EntryServiceUpdate(Store, e.id, Some(25), Some(None))
        IN  /\ o.id /= e.id /\ o.month_id = e.month_id
            /\ IsSome(e.due_day) /\ e.budgeted /= 25
            /\ IsOk(r.res) /\ r.res.val.due_day = None /\ r.res.val.budgeted = 25
            /\ o \in r.store.entries
            /\ ~\E x \in r.store.entries : x.id = e.id /\ IsSome(x.due_day)
            /\ EntryServiceUpdate(Store, UnknownId, None, None).res = Err("NotFound")

(* ids that name no month, before and after the create of one more month *)
UnknownMonthIds == {UnknownId, nextId.month + 1}

(* C27: when MonthService::create(month, copy_from, empty = false) fails     *)
(* with NotFound because copy_from names no month, the Month record of month *)
(* has been stored all the same and stays, with no entry; nothing else has   *)
(* changed, and a following create for the same calendar month fails with    *)
(* AlreadyExists whatever its other arguments                                *)
C27_MonthStaysAfterNotFound ==
    \A month \in BudgetMonths, unknown \in UnknownMonthIds :
        ~MonthExists(Store, month) =>
            LET r == MonthServiceCreate(Store, month, Some(unknown), FALSE, 0)
            IN  /\ r.res = Err("NotFound")
                /\ \E m \in r.store.months :
                       /\ m.month = BudgetMonthToString(month)
                       /\ r.store.months = months \cup {m}
                       /\ EntriesOf(r.store, m.id) = {}
                /\ r.store.entries = entries
                /\ r.store.categories = categories
                /\ r.store.transactions = transactions
                /\ \A copy_from \in CopyFroms \cup {Some(unknown)}, empty \in BOOLEAN :
                       LET again == MonthServiceCreate(r.store, month, copy_from, empty, 0)
                       IN  /\ again.res = [tag |-> "AlreadyExists",
                                           month |-> BudgetMonthToString(month)]
                           /\ again.store = r.store

(* a create with an unknown copy_from on a store that has a month with       *)
(* entries: the month is stored without entries and cannot be created again  *)
C27_Witness ==
    \E month \in BudgetMonths :
        LET r == MonthServiceCreate(Store, month, Some(UnknownId), FALSE, 0)
        IN  /\ ~MonthExists(Store, month)
            /\ entries /= {}
            /\ r.res = Err("NotFound")
            /\ MonthExists(r.store, month)
            /\ Cardinality(r.store.entries) = Cardinality(entries)
            /\ MonthServiceCreate(r.store, month, None, FALSE, 0).res.tag = "AlreadyExists"

-----------------------------------------------------------------------------
(* SpecLedger: the entries and transactions of two months and two            *)
(* categories, starting from the store the four creating calls leave         *)

LedgerLimit ==
    [month |-> 2, category |-> 2,
     entry |-> LedgerEntryRows, transaction |-> LedgerTransactionRows]

LedgerInit ==
    \E s1 \in {CategoryServiceCreate(EmptyStore, <<102, 111, 111, 100>>).store} :
    \E s2 \in {CategoryServiceCreate(s1, <<114, 101, 110, 116>>).store} :
    \E s3 \in {MonthServiceCreate(s2, [year |-> 2026, month |-> 1], None, TRUE, 0).store} :
    \E s4 \in {MonthServiceCreate(s3, [year |-> 2026, month |-> 2], None, TRUE, 0).store} :
        /\ months = s4.months
        /\ categories = s4.categories
        /\ entries = s4.entries
        /\ transactions = s4.transactions
        /\ nextId = s4.nextId
        /\ procs = <<>>

LedgerNext ==
    \/ EntryCreate(LedgerLimit, LedgerEntryValues)
    \/ EntryUpdate(LedgerLimit, Optional(Budgets), {None})
    \/ EntryDelete(LedgerLimit)
    \/ TransactionCreate(LedgerLimit, LedgerAmounts, Dates, Titles, {0})
    \/ TransactionUpdate(LedgerLimit, Patches(EntryIds, LedgerAmounts, {}, {}))
    \/ TransactionDelete(LedgerLimit)
    \/ GetMonthSummary

SpecLedger == LedgerInit /\ [][LedgerNext]_vars

-----------------------------------------------------------------------------
(* EntryService.delete and SummaryService.get_month_summary: what the claims *)
(* about them say of every store SpecLedger reaches                          *)

TransactionsOf(s, entry_id) == {x \in s.transactions : x.entry_id = entry_id}

(* C5: delete(id) of an entry that n >= 1 transactions reference fails with  *)
(* HasTransactions{transaction_count = n} and deletes nothing: the entry and *)
(* its transactions are in the store and found by id afterwards.             *)
C5_DeleteWithTransactionsFails ==
    \A e \in entries :
        LET n == Cardinality(TransactionsOf(Store, e.id))
            r == EntryServiceDelete(Store, e.id)
        IN  n >= 1 =>
                /\ r.res = [tag |-> "HasTransactions", transaction_count |-> n]
                /\ r.store = Store
                /\ EntryRepoFindById(r.store, e.id) = Ok(Some(e))
                /\ \A x \in TransactionsOf(Store, e.id) :
                       IsSome(TransactionRepoFindById(r.store, x.id).val)

(* delete of an entry with two transactions, next to an entry with none *)
C5_Witness ==
    \E e, o \in entries :
        /\ Cardinality(TransactionsOf(Store, e.id)) = 2
        /\ TransactionsOf(Store, o.id) = {}
        /\ EntryServiceDelete(Store, e.id).res.tag = "HasTransactions"
        /\ IsOk(EntryServiceDelete(Store, o.id).res)

(* the sum of f over the rows whose id is at most n, one id at a time *)
RECURSIVE SumById(_, _, _)
SumById(rows, n, field) ==
    IF n = 0 THEN 0
    ELSE SumById(rows, n - 1, field)
         + (IF \E r \in rows : r.id = n
            THEN (CHOOSE r \in rows : r.id = n)[field] ELSE 0)

PaidOf(s, entry_id) == SumById(TransactionsOf(s, entry_id), s.nextId.transaction, "amount")

RECURSIVE SumPaid(_, _, _)
SumPaid(s, rows, n) ==
    IF n = 0 THEN 0
    ELSE SumPaid(s, rows, n - 1) + (IF \E r \in rows : r.id = n THEN PaidOf(s, n) ELSE 0)

(* C10: get_month_summary(month_id) of a stored month returns one row for    *)
(* each entry of the month and no other row, each with the entry's budgeted, *)
(* paid = the sum of the amounts of the transactions that reference the      *)
(* entry (0 when none does) and remaining = budgeted - paid; total_budgeted  *)
(* is the sum of budgeted, total_paid the sum of paid, and remaining their   *)
(* difference.                                                               *)
C10_SummaryIsTheSum ==
    \A m \in months :
        LET r == SummaryServiceGetMonthSummary(Store, m.id)
            rows == r.val.categories
            mine == EntriesOf(Store, m.id)
        IN  /\ IsOk(r)
            /\ Len(rows) = Cardinality(mine)
            /\ {rows[i].entry_id : i \in 1..Len(rows)} = {e.id : e \in mine}
            /\ \A i \in 1..Len(rows) : \E e \in mine :
                   /\ rows[i].entry_id = e.id
                   /\ rows[i].budgeted = e.budgeted
                   /\ rows[i].paid = PaidOf(Store, e.id)
                   /\ rows[i].remaining = e.budgeted - PaidOf(Store, e.id)
            /\ r.val.total_budgeted = SumById(mine, nextId.entry, "budgeted")
            /\ r.val.total_paid = SumPaid(Store, mine, nextId.entry)
            /\ r.val.remaining = r.val.total_budgeted - r.val.total_paid

(* a month of two entries with a transaction each, after an update moved or  *)
(* a create added the second: both rows are paid and the totals add up       *)
C10_Witness ==
    \E m \in months :
        LET r == SummaryServiceGetMonthSummary(Store, m.id)
        IN  /\ IsOk(r)
            /\ Len(r.val.categories) = 2
            /\ \A i \in 1..2 : r.val.categories[i].paid = 5
            /\ r.val.total_paid = 10
            /\ r.val.total_budgeted = 10
            /\ r.val.remaining = 0

(* delete of an entry removes it and nothing else; the list and the summary  *)
(* of its month no longer have it                                            *)
DeletesEntry(s, e) ==
    LET r == EntryServiceDelete(s, e.id)
        listed == EntryServiceListByMonth(r.store, e.month_id)
        summary == SummaryServiceGetMonthSummary(r.store, e.month_id)
    IN  /\ r.res = Ok(<<>>)
        /\ r.store = [s EXCEPT !.entries = @ \ {e}]
        /\ e \in s.entries
        /\ IsOk(listed) /\ ~\E i \in DOMAIN listed.val : listed.val[i].id = e.id
        /\ IsOk(summary)
        /\ ~\E i \in DOMAIN summary.val.categories : summary.val.categories[i].entry_id = e.id

(* C28: EntryService::delete looks at the current number of transactions of  *)
(* the entry only: an entry that no transaction references now is deleted,   *)
(* also when it had a transaction that was deleted or that update moved to   *)
(* another entry; afterwards the entry is not in list_by_month nor in the     *)
(* month's summary, and every other entry is as it was                       *)
C28_DeleteLooksAtCurrentCount ==
    /\ \A e \in entries : TransactionsOf(Store, e.id) = {} => DeletesEntry(Store, e)
    /\ \A e \in entries, t \in transactions :
           TransactionsOf(Store, e.id) = {t} =>
               /\ DeletesEntry(TransactionServiceDelete(Store, t.id).store, e)
               /\ \A o \in entries \ {e} :
                      DeletesEntry(TransactionServiceUpdate(Store, t.id, Some(o.id),
                                                            None, None, None).store, e)

(* an entry whose one transaction is moved to another entry of its month is  *)
(* deleted, in a store from which a transaction has been deleted before      *)
C28_Witness ==
    \E e \in entries, o \in entries, t \in transactions :
        /\ TransactionsOf(Store, e.id) = {t}
        /\ o.id /= e.id /\ o.month_id = e.month_id
        /\ nextId.transaction > Cardinality(transactions) + 1
        /\ EntryServiceDelete(Store, e.id).res.tag = "HasTransactions"
        /\ LET moved == TransactionServiceUpdate(Store, t.id, Some(o.id), None, None, None)
           IN  /\ IsOk(moved.res)
               /\ DeletesEntry(moved.store, e)
               /\ o \in EntryServiceDelete(moved.store, e.id).store.entries

-----------------------------------------------------------------------------
(* Interleaved calls. Two requests are in flight; a service call runs one    *)
(* repository call per step, since every .await on a repository is a point  *)
(* where the other request may run. A repository call that writes and then   *)
(* reads its row back is one step: the read changes nothing.                 *)

Procs == {1, 2}

Idle == [pc |-> "idle", op |-> "none", args |-> <<>>, res |-> "none"]

NoRequests == [calls |-> 0, at |-> [p \in Procs |-> Idle]]

At(p, op, pc) == procs.at[p].op = op /\ procs.at[p].pc = pc

Begin(p, op, pc, args) ==
    /\ procs.at[p].pc = "idle"
    /\ procs.calls < MaxCalls
    /\ procs' = [calls |-> procs.calls + 1,
                 at |-> [procs.at EXCEPT ![p] = [pc |-> pc, op |-> op, args |-> args,
                                                 res |-> "none"]]]

Goto(p, pc) == procs' = [procs EXCEPT !.at[p].pc = pc]

Return(p, tag) == procs' = [procs EXCEPT !.at[p].pc = "idle", !.at[p].res = tag]

StoreUnchanged == UNCHANGED <<months, categories, entries, transactions, nextId>>

(* the ids a client may hold: those of rows that are or were in the store *)
KnownEntryIds == 1..(nextId.entry - 1)
KnownTransactionIds == 1..(nextId.transaction - 1)

(* EntryService::delete: transaction_count, then delete *)
StartEntryDelete(p) ==
    \E id \in KnownEntryIds :
        Begin(p, "EntryService.delete", "transaction_count", [id |-> id]) /\ StoreUnchanged

EntryDeleteCount(p) ==
    /\ At(p, "EntryService.delete", "transaction_count")
    /\ IF EntryRepoTransactionCount(Store, procs.at[p].args.id).val > 0
       THEN Return(p, "HasTransactions")
       ELSE Goto(p, "delete")
    /\ StoreUnchanged

EntryDeleteDelete(p) ==
    /\ At(p, "EntryService.delete", "delete")
    /\ LET r == EntryRepoDelete(Store, procs.at[p].args.id)
       IN  Commit(r.store) /\ Return(p, r.res.tag)

(* TransactionService::create with a valid amount and title: find_by_id of   *)
(* the entry, then transaction_repo.create                                   *)
StartTransactionCreate(p) ==
    \E entry_id \in KnownEntryIds, date \in Dates :
        /\ Begin(p, "TransactionService.create", "find_entry",
                 [entry_id |-> entry_id, amount |-> 5, date |-> date, title |-> None])
        /\ StoreUnchanged

TransactionCreateFindEntry(p) ==
    /\ At(p, "TransactionService.create", "find_entry")
    /\ IF EntryRepoFindById(Store, procs.at[p].args.entry_id).val = None
       THEN Return(p, "EntryNotFound")
       ELSE Goto(p, "create")
    /\ StoreUnchanged

TransactionCreateInsert(p, limit) ==
    /\ At(p, "TransactionService.create", "create")
    /\ LET r == TransactionRepoCreate(Store, procs.at[p].args, Clock(Store) + 1)
       IN  WithinBounds(r.store, limit) /\ Commit(r.store) /\ Return(p, r.res.tag)

(* TransactionService::update that moves a transaction to another entry:     *)
(* find_by_id of the entry, then transaction_repo.update                     *)
StartTransactionUpdate(p) ==
    \E id \in KnownTransactionIds, entry_id \in KnownEntryIds :
        /\ Begin(p, "TransactionService.update", "find_entry",
                 [id |-> id, entry_id |-> entry_id])
        /\ StoreUnchanged

TransactionUpdateFindEntry(p) ==
    /\ At(p, "TransactionService.update", "find_entry")
    /\ IF EntryRepoFindById(Store, procs.at[p].args.entry_id).val = None
       THEN Return(p, "EntryNotFound")
       ELSE Goto(p, "update")
    /\ StoreUnchanged

TransactionUpdateUpdate(p) ==
    /\ At(p, "TransactionService.update", "update")
    /\ LET r == TransactionRepoUpdate(Store, procs.at[p].args.id,
                                      Some(procs.at[p].args.entry_id), None, None, None)
       IN  Commit(r.store) /\ Return(p, r.res.tag)

-----------------------------------------------------------------------------
(* SpecConc: EntryService.delete against TransactionService.create and       *)
(* update, on a month with two entries                                       *)

ConcLimit ==
    [month |-> 1, category |-> 2, entry |-> 2, transaction |-> ConcTransactionRows]

ConcInit ==
    \E s1 \in {CategoryServiceCreate(EmptyStore, <<102, 111, 111, 100>>).store} :
    \E s2 \in {CategoryServiceCreate(s1, <<114, 101, 110, 116>>).store} :
    \E s3 \in {MonthServiceCreate(s2, [year |-> 2026, month |-> 1], None, TRUE, 0).store} :
    \E s4 \in {EntryServiceCreate(s3, 1, 1, 10, Some(15)).store} :
    \E s5 \in {EntryServiceCreate(s4, 1, 2, 0, None).store} :
        /\ months = s5.months
        /\ categories = s5.categories
        /\ entries = s5.entries
        /\ transactions = s5.transactions
        /\ nextId = s5.nextId
        /\ procs = NoRequests

ConcNext ==
    \E p \in Procs :
        \/ StartEntryDelete(p)
        \/ EntryDeleteCount(p)
        \/ EntryDeleteDelete(p)
        \/ StartTransactionCreate(p)
        \/ TransactionCreateFindEntry(p)
        \/ TransactionCreateInsert(p, ConcLimit)
        \/ StartTransactionUpdate(p)
        \/ TransactionUpdateFindEntry(p)
        \/ TransactionUpdateUpdate(p)

SpecConc == ConcInit /\ [][ConcNext]_vars

(* C3: in every state the interleavings of EntryService.delete with          *)
(* TransactionService.create and update reach, every stored transaction's    *)
(* entry_id is the id of a stored entry.                                     *)
C3_NoDanglingTransaction ==
    \A x \in transactions : \E e \in entries : e.id = x.entry_id

(* a delete that counted no transaction, was overtaken by the create of one, *)
(* and was then refused by the store                                         *)
C3_Witness ==
    \E p, q \in Procs :
        /\ procs.at[p].op = "EntryService.delete"
        /\ procs.at[p].res = "Repository"
        /\ procs.at[q].op = "TransactionService.create"
        /\ procs.at[q].res = "Ok"
        /\ procs.calls = 2
        /\ \E x \in transactions : x.entry_id = procs.at[p].args.id

-----------------------------------------------------------------------------
(* EntryService::create: find_by_id of the month, find_by_id of the          *)
(* category, then entry_repo.create                                          *)

StartEntryCreate(p) ==
    \E month_id \in {m.id : m \in months}, category_id \in {c.id : c \in categories} :
        /\ Begin(p, "EntryService.create", "find_month",
                 [month_id |-> month_id, category_id |-> category_id,
                  budgeted |-> 10, due_day |-> Some(15)])
        /\ StoreUnchanged

EntryCreateFindMonth(p) ==
    /\ At(p, "EntryService.create", "find_month")
    /\ IF MonthRepoFindById(Store, procs.at[p].args.month_id).val = None
       THEN Return(p, "MonthNotFound")
       ELSE Goto(p, "find_category")
    /\ StoreUnchanged

EntryCreateFindCategory(p) ==
    /\ At(p, "EntryService.create", "find_category")
    /\ IF CategoryRepoFindById(Store, procs.at[p].args.category_id).val = None
       THEN Return(p, "CategoryNotFound")
       ELSE Goto(p, "create")
    /\ StoreUnchanged

EntryCreateInsert(p, limit) ==
    /\ At(p, "EntryService.create", "create")
    /\ LET r == EntryRepoCreate(Store, procs.at[p].args, FALSE)
       IN  WithinBounds(r.store, limit) /\ Commit(r.store) /\ Return(p, r.res.tag)

(* MonthService::create with empty = false: month_repo.create, the source    *)
(* month, list_by_month of the source, then one entry_repo.create per entry  *)
StartMonthCreate(p, monthValues) ==
    \E month \in monthValues, copy_from \in Optional({m.id : m \in months}) :
        /\ Begin(p, "MonthService.create", "create",
                 [month |-> month, copy_from |-> copy_from])
        /\ StoreUnchanged

MonthCreateInsert(p, limit) ==
    /\ At(p, "MonthService.create", "create")
    /\ LET r == MonthRepoCreate(Store, [month |-> procs.at[p].args.month])
       IN  /\ WithinBounds(r.store, limit)
           /\ Commit(r.store)
           /\ IF IsOk(r.res)
              THEN procs' = [procs EXCEPT !.at[p].pc = "source",
                                          !.at[p].args = [month |-> @.month,
                                                          copy_from |-> @.copy_from,
                                                          created |-> r.res.val]]
              ELSE Return(p, r.res.tag)

MonthCreateSource(p) ==
    /\ At(p, "MonthService.create", "source")
    /\ LET source == ResolveSourceMonth(Store, procs.at[p].args.created,
                                        procs.at[p].args.copy_from)
       IN  IF ~IsOk(source) THEN Return(p, source.tag)
           ELSE IF ~IsSome(source.val) THEN Return(p, "Ok")
           ELSE procs' = [procs EXCEPT !.at[p].pc = "list_by_month",
                                       !.at[p].args = [created |-> @.created,
                                                       source |-> Unwrap(source.val)]]
    /\ StoreUnchanged

MonthCreateList(p) ==
    /\ At(p, "MonthService.create", "list_by_month")
    /\ LET listed == EntryRepoListByMonth(Store, procs.at[p].args.source, FALSE)
       IN  procs' = [procs EXCEPT !.at[p].pc = "copy",
                                  !.at[p].args = [created |-> @.created,
                                                  entries |-> listed.val]]
    /\ StoreUnchanged

(* one turn of the copy loop, on the entries still to copy *)
MonthCreateCopy(p, limit) ==
    /\ At(p, "MonthService.create", "copy")
    /\ IF procs.at[p].args.entries = <<>>
       THEN Return(p, "Ok") /\ StoreUnchanged
       ELSE LET r == CopyEntry(Store, procs.at[p].args.created,
                               Head(procs.at[p].args.entries), FALSE)
            IN  /\ WithinBounds(r.store, limit)
                /\ Commit(r.store)
                /\ IF IsOk(r.res)
                   THEN procs' = [procs EXCEPT !.at[p].args.entries = Tail(@)]
                   ELSE Return(p, r.res.tag)

-----------------------------------------------------------------------------
(* SpecConcCreate: EntryService.create and MonthService.create with copying, *)
(* interleaved, on a month that has one entry                                *)

PairLimit ==
    [month |-> PairMonthRows, category |-> 2, entry |-> PairEntryRows, transaction |-> 0]

PairMonths == {[year |-> 2025, month |-> 12]}

PairInit ==
    \E s1 \in {CategoryServiceCreate(EmptyStore, <<102, 111, 111, 100>>).store} :
    \E s2 \in {CategoryServiceCreate(s1, <<114, 101, 110, 116>>).store} :
    \E s3 \in {MonthServiceCreate(s2, [year |-> 2026, month |-> 1], None, TRUE, 0).store} :
    \E s4 \in {EntryServiceCreate(s3, 1, 1, 0, None).store} :
        /\ months = s4.months
        /\ categories = s4.categories
        /\ entries = s4.entries
        /\ transactions = s4.transactions
        /\ nextId = s4.nextId
        /\ procs = NoRequests

PairNext ==
    \E p \in Procs :
        \/ StartEntryCreate(p)
        \/ EntryCreateFindMonth(p)
        \/ EntryCreateFindCategory(p)
        \/ EntryCreateInsert(p, PairLimit)
        \/ StartMonthCreate(p, PairMonths)
        \/ MonthCreateInsert(p, PairLimit)
        \/ MonthCreateSource(p)
        \/ MonthCreateList(p)
        \/ MonthCreateCopy(p, PairLimit)

SpecConcCreate == PairInit /\ [][PairNext]_vars

(* C4: in every state the interleavings of EntryService.create and of        *)
(* MonthService.create with copying reach, no two entries have the same      *)
(* (month_id, category_id); a create for a pair that has an entry fails with *)
(* CategoryAlreadyInMonth and leaves the store as it was, also as the last   *)
(* step of a call that found the pair free when it started.                  *)
C4_OneEntryPerPair ==
    /\ \A a, b \in entries :
           (a.month_id = b.month_id /\ a.category_id = b.category_id) => a = b
    /\ \A e \in entries, v \in EntryValues :
           LET r == EntryServiceCreate(Store, e.month_id, e.category_id, v.budgeted, v.due_day)
           IN  /\ r.res.tag = "CategoryAlreadyInMonth"
               /\ r.store = Store
    /\ \A p \in Procs :
           (/\ At(p, "EntryService.create", "create")
            /\ ViolatesUniqueEntry(Store, procs.at[p].args.month_id, procs.at[p].args.category_id)) =>
               LET r == EntryRepoCreate(Store, procs.at[p].args, FALSE)
               IN  /\ r.res.tag = "CategoryAlreadyInMonth"
                   /\ r.store = Store

(* two creates for the same pair that both found month and category: one has *)
(* stored the entry, the other is about to insert                            *)
C4_Witness ==
    \E p, q \in Procs :
        /\ p /= q
        /\ procs.calls = 2
        /\ procs.at[p].op = "EntryService.create" /\ procs.at[p].res = "Ok"
        /\ At(q, "EntryService.create", "create")
        /\ procs.at[q].args = procs.at[p].args
        /\ Cardinality({e \in entries : /\ e.month_id = procs.at[p].args.month_id
                                        /\ e.category_id = procs.at[p].args.category_id}) = 1

-----------------------------------------------------------------------------
(* EntryService.create on the stores SpecLedger reaches                      *)

(* C18: EntryService.create fails with MonthNotFound when the month does not *)
(* exist, whether or not the category exists, and with CategoryNotFound when *)
(* the month exists and the category does not; neither stores an entry.      *)
C18_MonthBeforeCategory ==
    \A month_id \in MonthIds, category_id \in CategoryIds, v \in EntryValues :
        LET r == EntryServiceCreate(Store, month_id, category_id, v.budgeted, v.due_day)
            month == \E m \in months : m.id = month_id
            category == \E c \in categories : c.id = category_id
        IN  /\ ~month => r.res = Err("MonthNotFound") /\ r.store = Store
            /\ month /\ ~category => r.res = Err("CategoryNotFound") /\ r.store = Store

(* next to a stored entry: a create with neither month nor category, one     *)
(* with the category only, one with the month only                           *)
C18_Witness ==
    /\ entries /= {}
    /\ \E m \in months, c \in categories, v \in EntryValues :
           /\ EntryServiceCreate(Store, UnknownId, UnknownId, v.budgeted, v.due_day).res
                  = Err("MonthNotFound")
           /\ EntryServiceCreate(Store, UnknownId, c.id, v.budgeted, v.due_day).res
                  = Err("MonthNotFound")
           /\ EntryServiceCreate(Store, m.id, UnknownId, v.budgeted, v.due_day).res
                  = Err("CategoryNotFound")

-----------------------------------------------------------------------------
(* SpecCategories: categories created, renamed and updated, and entries of   *)
(* one month that reference them                                             *)

(* "Food", "food", "rent" *)
CatNames == {<<70, 111, 111, 100>>, <<102, 111, 111, 100>>, <<114, 101, 110, 116>>}

(* label: Option<String>, none or "x" *)
CatLabels == {None, Some(<<120>>)}

CatLimit ==
    [month |-> 1, category |-> MaxCategoryRows, entry |-> MaxCategoryRows, transaction |-> 0]

CatInit ==
    \E s1 \in {MonthServiceCreate(EmptyStore, [year |-> 2026, month |-> 1], None, TRUE, 0).store} :
        /\ months = s1.months
        /\ categories = s1.categories
        /\ entries = s1.entries
        /\ transactions = s1.transactions
        /\ nextId = s1.nextId
        /\ procs = <<>>

CatNext ==
    \/ CategoryCreate(CatLimit, CatNames)
    \/ CategoryRename(CatLimit, CatNames)
    \/ CategoryUpdate(CatLimit, CatNames, CatLabels)
    \/ EntryCreate(CatLimit, LedgerEntryValues)

SpecCategories == CatInit /\ [][CatNext]_vars

(* C19: no two categories have the same name, compared exactly, after any    *)
(* sequence of create, rename and update calls; create of a name a category  *)
(* has fails with NameAlreadyExists{name} and leaves the categories as they  *)
(* are.                                                                      *)
C19_NamesAreUnique ==
    /\ \A c, d \in categories : c.name = d.name => c = d
    /\ \A name \in CatNames :
           (\E c \in categories : c.name = name) =>
               LET r == CategoryServiceCreate(Store, name)
               IN  /\ r.res = [tag |-> "NameAlreadyExists", name |-> name]
                   /\ r.store = Store

(* "Food" and "food" are both stored, and neither name can be given again *)
C19_Witness ==
    \E c, d \in categories :
        /\ c.name = <<70, 111, 111, 100>>
        /\ d.name = <<102, 111, 111, 100>>
        /\ c.id < d.id
        /\ CategoryServiceCreate(Store, c.name).res.tag = "NameAlreadyExists"
        /\ CategoryServiceRename(Store, d.id, c.name).res.tag = "NameAlreadyExists"

(* C20: rename of an id no category has fails with NotFound; rename to a     *)
(* name another category has fails with NameAlreadyExists and changes        *)
(* neither category; any other rename succeeds and changes the name of that  *)
(* category and nothing else: its id and label, the number of categories,    *)
(* the other categories and every entry, those that reference it included,   *)
(* are as before.                                                            *)
C20_RenameChangesTheNameOnly ==
    \A id \in CategoryIds, name \in CatNames :
        LET r == CategoryServiceRename(Store, id, name)
        IN  IF ~\E c \in categories : c.id = id
            THEN r.res = Err("NotFound") /\ r.store = Store
            ELSE IF \E c \in categories : c.id /= id /\ c.name = name
            THEN r.res = [tag |-> "NameAlreadyExists", name |-> name] /\ r.store = Store
            ELSE LET old == CHOOSE c \in categories : c.id = id
                     new == [old EXCEPT !.name = name]
                 IN  /\ r.res = Ok(new)
                     /\ r.store = [Store EXCEPT !.categories = (@ \ {old}) \cup {new}]
                     /\ Cardinality(r.store.categories) = Cardinality(categories)
                     /\ {e \in r.store.entries : e.category_id = id}
                            = {e \in entries : e.category_id = id}

(* a labelled category that an entry references is renamed, next to another  *)
(* category whose name it cannot take                                        *)
C20_Witness ==
    \E c, d \in categories, name \in CatNames :
        /\ c.id /= d.id
        /\ IsSome(c.label)
        /\ \E e \in entries : e.category_id = c.id
        /\ name \notin {c.name, d.name}
        /\ IsOk(CategoryServiceRename(Store, c.id, name).res)
        /\ CategoryServiceRename(Store, c.id, d.name).res.tag = "NameAlreadyExists"
        /\ CategoryServiceRename(Store, UnknownId, name).res.tag = "NotFound"

-----------------------------------------------------------------------------
(* Calls of functions that touch no store: procs is the call, its arguments  *)
(* drawn at the start, its result there once it has returned                 *)

Called(op, args) == [op |-> op, pc |-> "called", args |-> args, res |-> <<>>]

Returned(op) == procs.op = op /\ procs.pc = "returned"

FunctionInit(op, argValues) ==
    /\ months = {}
    /\ categories = {}
    /\ entries = {}
    /\ transactions = {}
    /\ nextId = EmptyStore.nextId
    /\ procs \in {Called(op, a) : a \in argValues}

FunctionReturn(op, res) ==
    /\ procs.op = op /\ procs.pc = "called"
    /\ procs' = [procs EXCEPT !.pc = "returned", !.res = res]
    /\ StoreUnchanged

-----------------------------------------------------------------------------
(* SpecStatus: derive_status on every budgeted and every paid >= 0 of a range *)

StatusInit ==
    FunctionInit("derive_status",
                 {[budgeted |-> b, paid |-> p] : b \in (-MaxMoney)..MaxMoney, p \in 0..MaxMoney})

DeriveStatusReturn ==
    FunctionReturn("derive_status", DeriveStatus(procs.args.budgeted, procs.args.paid))

StatusNext == DeriveStatusReturn

SpecStatus == StatusInit /\ [][StatusNext]_vars

(* C11: for every budgeted b and every paid p >= 0, derive_status gives the  *)
(* first row of the table that applies: (b = 0, p = 0) on_budget; (p = 0,    *)
(* b > 0) unpaid; (0 < p < b) underspent; (p = b, b > 0) on_budget; else     *)
(* overspent. The status is overspent exactly when p > b.                    *)
C11_StatusTable ==
    Returned("derive_status") =>
        LET b == procs.args.budgeted
            p == procs.args.paid
        IN  /\ procs.res = CASE b = 0 /\ p = 0 -> "on_budget"
                             [] p = 0 /\ b > 0 -> "unpaid"
                             [] 0 < p /\ p < b -> "underspent"
                             [] p = b /\ b > 0 -> "on_budget"
                             [] OTHER -> "overspent"
            /\ (procs.res = "overspent") <=> (p > b)

(* the status of a negative budget with nothing paid *)
C11_Witness ==
    /\ Returned("derive_status")
    /\ procs.args.budgeted < 0
    /\ procs.args.paid = 0
    /\ procs.res = "overspent"

-----------------------------------------------------------------------------
(* SpecTransactions: TransactionService create, update and delete on a store *)
(* of one month with an entry in each of two categories. A call of update    *)
(* supplies no field, one field or all four: what a call with two or three   *)
(* fields stores, calls with one field store one after the other.            *)

(* "a".repeat(n) *)
RECURSIVE Repeat(_, _)
Repeat(c, n) == IF n = 0 THEN <<>> ELSE Append(Repeat(c, n - 1), c)

TxnAmounts == {-1, 0, 5}
TxnUpdateAmounts == {-1, 5}
TxnDates == {[year |-> 2026, month |-> 1, day |-> 10]}
TxnUpdateDates == {[year |-> 2026, month |-> 2, day |-> 28]}

(* no title; blanks only; " a b" and a tab; one letter more than             *)
(* MAX_TITLE_LENGTH                                                          *)
TxnTitles ==
    {None, Some(<<32, 9>>), Some(<<32, 97, 32, 98, 9>>),
     Some(Repeat(97, MAX_TITLE_LENGTH + 1))}

TxnPatches == Patches(EntryIds, TxnUpdateAmounts, TxnUpdateDates, TxnTitles)

TxnLimit ==
    [month |-> 1, category |-> 2, entry |-> 2, transaction |-> TransactionRows]

(* calls: what procs starts as *)
TxnInitWith(calls) ==
    \E s1 \in {CategoryServiceCreate(EmptyStore, <<102, 111, 111, 100>>).store} :
    \E s2 \in {CategoryServiceCreate(s1, <<114, 101, 110, 116>>).store} :
    \E s3 \in {MonthServiceCreate(s2, [year |-> 2026, month |-> 1], None, TRUE, 0).store} :
    \E s4 \in {EntryServiceCreate(s3, 1, 1, 10, None).store} :
    \E s5 \in {EntryServiceCreate(s4, 1, 2, 0, Some(15)).store} :
        /\ months = s5.months
        /\ categories = s5.categories
        /\ entries = s5.entries
        /\ transactions = s5.transactions
        /\ nextId = s5.nextId
        /\ procs \in calls

TxnInit == TxnInitWith({<<>>})

TxnNext ==
    \/ TransactionCreate(TxnLimit, TxnAmounts, TxnDates, TxnTitles, {0})
    \/ TransactionUpdate(TxnLimit, {patch \in TxnPatches :
                                        Cardinality(Supplied(patch)) \in {0, 1, 4}})
    \/ TransactionDelete(TxnLimit)

SpecTransactions == TxnInit /\ [][TxnNext]_vars

(* C12: create with amount < 0 returns InvalidAmount{value = amount} and     *)
(* stores nothing, whether or not the entry exists and whatever the title,   *)
(* and returns the same on a store with no rows at all: no repository has a  *)
(* say in it. amount = 0 is not an InvalidAmount.                            *)
C12_NegativeAmountFirst ==
    \A entry_id \in EntryIds, amount \in TxnAmounts, date \in TxnDates, title \in TxnTitles :
        LET r == TransactionServiceCreate(Store, entry_id, amount, date, title, Clock(Store))
        IN  /\ amount < 0 =>
                /\ r.res = [tag |-> "InvalidAmount", value |-> amount]
                /\ r.store = Store
                /\ TransactionServiceCreate(EmptyStore, entry_id, amount, date, title, 1).res
                       = r.res
            /\ amount = 0 => r.res.tag /= "InvalidAmount"

(* a negative amount with an unknown entry and a title that is too long,     *)
(* next to a stored transaction of amount 0                                  *)
C12_Witness ==
    /\ \E x \in transactions : x.amount = 0
    /\ LET long == Some(Repeat(97, MAX_TITLE_LENGTH + 1))
           date == CHOOSE d \in TxnDates : TRUE
       IN  /\ TransactionServiceCreate(Store, UnknownId, -1, date, long, Clock(Store)).res.tag
                  = "InvalidAmount"
           /\ TransactionServiceCreate(Store, UnknownId, 0, date, long, Clock(Store)).res.tag
                  = "TitleTooLong"
           /\ TransactionServiceCreate(Store, UnknownId, 0, date, None, Clock(Store)).res.tag
                  = "EntryNotFound"

(* C13: every stored transaction has amount >= 0 and a title that is absent *)
(* or a non-empty string of at most 50 characters with no whitespace at      *)
(* either end, after any sequence of create and update calls.                *)
C13_StoredTransactionsValid ==
    \A x \in transactions :
        /\ x.amount >= 0
        /\ \/ x.title = None
           \/ LET title == Unwrap(x.title)
              IN  /\ IsSome(x.title)
                  /\ title /= <<>>
                  /\ ~IsWhitespace(title[1])
                  /\ ~IsWhitespace(title[Len(title)])
                  /\ Len(title) <= 50

(* a transaction of amount 0 with a title, and one that an update has dated *)
C13_Witness ==
    \E x, y \in transactions :
        /\ x.amount = 0 /\ IsSome(x.title)
        /\ y.date = TransactionDateToString(CHOOSE d \in TxnUpdateDates : TRUE)
        /\ y.title = None

(* the title create and update store for a given one *)
StoredTitle(title) ==
    IF IsSome(title) /\ Trim(Unwrap(title)) /= <<>> THEN Some(Trim(Unwrap(title))) ELSE None

(* the characters of a title once trimmed *)
TrimmedChars(title) == IF IsSome(title) THEN Len(Trim(Unwrap(title))) ELSE 0

(* C15: create with amount >= 0 and a title of at most 50 characters once    *)
(* trimmed fails with EntryNotFound and stores nothing when entry_id names   *)
(* no entry; when the entry exists it stores exactly one new transaction     *)
(* with the given entry_id, amount and date and the normalized title,        *)
(* returns it, and changes no other transaction.                             *)
C15_CreateStoresOne ==
    \A entry_id \in EntryIds, amount \in TxnAmounts, date \in TxnDates, title \in TxnTitles :
        LET r == TransactionServiceCreate(Store, entry_id, amount, date, title, Clock(Store))
            new == r.store.transactions \ transactions
        IN  (amount >= 0 /\ TrimmedChars(title) <= 50) =>
                IF \E e \in entries : e.id = entry_id
                THEN /\ IsOk(r.res)
                     /\ transactions \subseteq r.store.transactions
                     /\ Cardinality(new) = 1
                     /\ \A x \in new :
                            /\ x.id \notin {y.id : y \in transactions}
                            /\ x.entry_id = entry_id
                            /\ x.amount = amount
                            /\ x.date = TransactionDateToString(date)
                            /\ x.title = StoredTitle(title)
                            /\ r.res.val = [id |-> x.id, entry_id |-> entry_id,
                                            amount |-> amount, date |-> date,
                                            title |-> StoredTitle(title),
                                            created_at |-> x.created_at,
                                            updated_at |-> x.updated_at]
                     /\ [r.store EXCEPT !.transactions = transactions, !.nextId = nextId]
                            = Store
                ELSE /\ r.res = Err("EntryNotFound")
                     /\ r.store = Store

(* a create on an unknown entry and a create with a blank-padded title on    *)
(* an entry, next to a stored transaction                                    *)
C15_Witness ==
    /\ transactions /= {}
    /\ \E entry_id \in EntryIds, date \in TxnDates, title \in TxnTitles :
           /\ IsSome(title) /\ StoredTitle(title) /= title /\ StoredTitle(title) /= None
           /\ TransactionServiceCreate(Store, UnknownId, 5, date, title, Clock(Store)).res
                  = Err("EntryNotFound")
           /\ IsOk(TransactionServiceCreate(Store, entry_id, 5, date, title, Clock(Store)).res)

(* the failures C17 names that a call update(id, patch) meets *)
UpdateFailures(id, patch) ==
    {f \in {"InvalidAmount", "EntryNotFound", "TitleTooLong", "NotFound"} :
        \/ f = "InvalidAmount" /\ IsSome(patch.amount) /\ Unwrap(patch.amount) < 0
        \/ f = "EntryNotFound" /\ IsSome(patch.entry_id)
             /\ ~\E e \in entries : e.id = Unwrap(patch.entry_id)
        \/ f = "TitleTooLong" /\ IsSome(patch.title) /\ TrimmedChars(Unwrap(patch.title)) > 50
        \/ f = "NotFound" /\ ~\E x \in transactions : x.id = id}

(* C16: update(id, entry_id?, amount?, date?, title?) of a stored            *)
(* transaction with fields that meet none of the failures succeeds, sets     *)
(* each supplied field (a supplied title that is null clears the title, a    *)
(* value sets it to the trimmed value, no title when that is empty) and      *)
(* leaves every other field, the id, every other transaction and every       *)
(* other table as it was; an update that supplies no field returns the       *)
(* transaction as it is.                                                     *)
C16_UpdateChangesSuppliedOnly ==
    \A x \in transactions, patch \in TxnPatches :
        UpdateFailures(x.id, patch) = {} =>
            LET r == TransactionServiceUpdate(Store, x.id, patch.entry_id, patch.amount,
                                              patch.date, patch.title)
                y == [x EXCEPT
                        !.entry_id = IF IsSome(patch.entry_id) THEN Unwrap(patch.entry_id)
                                     ELSE @,
                        !.amount = IF IsSome(patch.amount) THEN Unwrap(patch.amount) ELSE @,
                        !.date = IF IsSome(patch.date)
                                 THEN TransactionDateToString(Unwrap(patch.date)) ELSE @,
                        !.title = IF IsSome(patch.title) THEN StoredTitle(Unwrap(patch.title))
                                  ELSE @]
            IN  /\ IsOk(r.res)
                /\ r.store = [Store EXCEPT !.transactions = (@ \ {x}) \cup {y}]
                /\ TransactionRepoFindById(r.store, x.id) = Ok(Some(r.res.val))
                /\ r.res.val.id = x.id
                /\ Supplied(patch) = {} => r.store = Store

(* an update of the title alone that clears it and one of the amount alone  *)
(* on one transaction, and one of every field on another                     *)
C16_Witness ==
    \E x, o \in transactions :
        /\ x.id /= o.id /\ IsSome(x.title) /\ x.amount = 0 /\ o.title = None
        /\ \E e \in entries, date \in TxnUpdateDates, title \in TxnTitles :
               /\ e.id /= o.entry_id
               /\ StoredTitle(title) \notin {None, title}
               /\ TransactionServiceUpdate(Store, x.id, None, None, None, Some(None))
                      .res.val.title = None
               /\ TransactionServiceUpdate(Store, x.id, None, Some(5), None, None)
                      .res.val.amount = 5
               /\ IsOk(TransactionServiceUpdate(Store, o.id, Some(e.id), Some(5), Some(date),
                                                Some(title)).res)

(* C17: update fails with InvalidAmount when a negative amount is supplied,  *)
(* EntryNotFound when the supplied entry_id names no entry, TitleTooLong     *)
(* when the supplied title has more than 50 characters once trimmed and      *)
(* NotFound when no transaction has the id: when any of these holds the      *)
(* call returns the error of one that holds and the store is as before.      *)
C17_UpdateFailuresChangeNothing ==
    \A id \in TransactionIds, patch \in TxnPatches :
        UpdateFailures(id, patch) /= {} =>
            LET r == TransactionServiceUpdate(Store, id, patch.entry_id, patch.amount,
                                              patch.date, patch.title)
            IN  /\ r.res.tag \in UpdateFailures(id, patch)
                /\ r.res.tag = "InvalidAmount" => r.res.value = Unwrap(patch.amount)
                /\ r.res.tag = "TitleTooLong" =>
                       /\ r.res.length = TrimmedChars(Unwrap(patch.title))
                       /\ r.res.max = 50
                /\ r.store = Store

(* each of the four failures on its own, and two at once *)
C17_Witness ==
    \E x \in transactions :
        /\ TransactionServiceUpdate(Store, x.id, None, Some(-1), None, None).res.tag
               = "InvalidAmount"
        /\ TransactionServiceUpdate(Store, x.id, Some(UnknownId), None, None, None).res.tag
               = "EntryNotFound"
        /\ TransactionServiceUpdate(Store, x.id, None, None, None,
                                    Some(Some(Repeat(97, MAX_TITLE_LENGTH + 1)))).res.tag
               = "TitleTooLong"
        /\ TransactionServiceUpdate(Store, UnknownId, None, Some(5), None, None).res.tag
               = "NotFound"
        /\ TransactionServiceUpdate(Store, UnknownId, Some(UnknownId), Some(-1), None, None)
               .res.tag = "EntryNotFound"

(* titles that are empty or hold blanks only: "", " ", a blank and a tab, a  *)
(* no-break space and a line feed                                            *)
BlankTitles == {<<>>, <<32>>, <<32, 9>>, <<160, 10>>}

(* C30: TransactionService::update with a title that is empty or holds       *)
(* whitespace only does what it does with a title of null, whatever the      *)
(* other fields: the same result and the same store; where the call          *)
(* succeeds the stored title is cleared, neither kept nor stored as an empty *)
(* string                                                                    *)
C30_BlankTitleClears ==
    \A id \in TransactionIds, blank \in BlankTitles,
       entry_id \in Optional(EntryIds), amount \in Optional(TxnUpdateAmounts) :
        LET r == TransactionServiceUpdate(Store, id, entry_id, amount, None, Some(Some(blank)))
            null == TransactionServiceUpdate(Store, id, entry_id, amount, None, Some(None))
        IN  /\ r = null
            /\ IsOk(r.res) =>
                   /\ r.res.val.title = None
                   /\ \A x \in r.store.transactions : x.id = id => x.title = None

(* a transaction with a title loses it by an update whose title is a blank   *)
(* and a tab, next to a transaction that keeps its title                     *)
C30_Witness ==
    \E x \in transactions, o \in transactions :
        LET r == TransactionServiceUpdate(Store, x.id, None, None, None, Some(Some(<<32, 9>>)))
        IN  /\ x.id /= o.id /\ IsSome(x.title) /\ IsSome(o.title)
            /\ IsOk(r.res) /\ r.res.val.title = None
            /\ o \in r.store.transactions
            /\ \E y \in r.store.transactions : y.id = x.id /\ y.title = None

-----------------------------------------------------------------------------
(* SpecTitles: one call of TransactionService::create on the store           *)
(* SpecTransactions starts from, for each title made of blanks, a body and   *)
(* blanks                                                                    *)

(* 'a' is one byte in UTF-8, U+00E9 two, U+20AC three *)
TitleBodies ==
    {<<>>, <<97>>, <<97, 32, 98>>}
        \cup {Repeat(97, n) : n \in (MAX_TITLE_LENGTH - 1)..(MAX_TITLE_LENGTH + 1)}
        \cup {Repeat(233, n) : n \in {25, 26, MAX_TITLE_LENGTH, MAX_TITLE_LENGTH + 1}}
        \cup {Repeat(8364, 17)}

(* U+00A0 and U+3000 are White_Space as space, tab and line feed are *)
TitleBlanks == {<<>>, <<32>>, <<9, 160>>, <<10, 12288>>}

TitleInputs ==
    {None} \cup {Some(a \o body \o b) : a \in TitleBlanks, body \in TitleBodies,
                                        b \in TitleBlanks}

TitleInit ==
    TxnInitWith({Called("create", [entry_id |-> 1, amount |-> 5, date |-> d, title |-> title]) :
                    d \in TxnDates, title \in TitleInputs})

TitleCreateReturn ==
    /\ procs.op = "create" /\ procs.pc = "called"
    /\ \E r \in {TransactionServiceCreate(Store, procs.args.entry_id, procs.args.amount,
                                          procs.args.date, procs.args.title, 1)} :
           /\ Commit(r.store)
           /\ procs' = [procs EXCEPT !.pc = "returned", !.res = r.res]

TitleNext == TitleCreateReturn

SpecTitles == TitleInit /\ [][TitleNext]_vars

(* C14: create trims the title first; no title, an empty one and one of      *)
(* whitespace only store no title; a trimmed title of at most 50 characters  *)
(* is accepted and stored trimmed; one of more than 50 characters is         *)
(* rejected with TitleTooLong{length = its trimmed length, max = 50} and     *)
(* nothing is stored.                                                        *)
C14_TitleOfFiftyCharacters ==
    Returned("create") =>
        LET chars == TrimmedChars(procs.args.title)
        IN  IF chars = 0
            THEN IsOk(procs.res) /\ \A x \in transactions : x.title = None
            ELSE IF chars <= 50
            THEN /\ IsOk(procs.res)
                 /\ \A x \in transactions : x.title = Some(Trim(Unwrap(procs.args.title)))
            ELSE /\ procs.res = [tag |-> "TitleTooLong", length |-> chars, max |-> 50]
                 /\ transactions = {}

-----------------------------------------------------------------------------
(* SpecEntryList: list_by_month and get_month_summary over the entries of    *)
(* two months and four categories, every entry with no due day or one of two *)

(* "rent", "food", "Food", "foo", in the order of their creation *)
ListNames == <<(<<114, 101, 110, 116>>), (<<102, 111, 111, 100>>),
               (<<70, 111, 111, 100>>), (<<102, 111, 111>>)>>

ListDueDays == {None, Some(1), Some(15)}

ListLimit ==
    [month |-> 2, category |-> Len(ListNames), entry |-> Len(ListNames) + 1, transaction |-> 0]

(* day is None when the category gets no entry in the month, or the due day  *)
(* of the entry it gets                                                      *)
ListEntry(s, month_id, category_id, day) ==
    IF day = None THEN s
    ELSE EntryServiceCreate(s, month_id, category_id, 10, day[1]).store

(* the store after the categories and two empty months are created, and then *)
(* the entries: days[k] tells of category k in the first month, other of     *)
(* category 1 in the second                                                  *)
ListInitWith(dayValues, otherValues) ==
    \E c1 \in {CategoryServiceCreate(EmptyStore, ListNames[1]).store} :
    \E c2 \in {CategoryServiceCreate(c1, ListNames[2]).store} :
    \E c3 \in {CategoryServiceCreate(c2, ListNames[3]).store} :
    \E c4 \in {CategoryServiceCreate(c3, ListNames[4]).store} :
    \E m1 \in {MonthServiceCreate(c4, [year |-> 2026, month |-> 1], None, TRUE, 0).store} :
    \E m2 \in {MonthServiceCreate(m1, [year |-> 2026, month |-> 2], None, TRUE, 0).store} :
    \E days \in dayValues, other \in otherValues :
    \E e1 \in {ListEntry(m2, 1, 1, days[1])} :
    \E e2 \in {ListEntry(e1, 1, 2, days[2])} :
    \E e3 \in {ListEntry(e2, 1, 3, days[3])} :
    \E e4 \in {ListEntry(e3, 1, 4, days[4])} :
    \E e5 \in {ListEntry(e4, 2, 1, other)} :
        /\ months = e5.months
        /\ categories = e5.categories
        /\ entries = e5.entries
        /\ transactions = e5.transactions
        /\ nextId = e5.nextId
        /\ procs = <<>>

ListInit ==
    ListInitWith([1..Len(ListNames) -> Optional(ListDueDays)], Optional(ListDueDays))

ListNext ==
    \/ EntryUpdate(ListLimit, {None}, Optional(ListDueDays))
    \/ EntryListByMonth
    \/ GetMonthSummary

SpecEntryList == ListInit /\ [][ListNext]_vars

(* the order of the list: by due day ascending, an entry without a due day   *)
(* after every entry with one, entries that tie by category name ascending   *)
ListedBefore(a, b) ==
    \/ a.due_day /= None /\ b.due_day = None
    \/ a.due_day /= None /\ b.due_day /= None /\ a.due_day[1] < b.due_day[1]
    \/ a.due_day = b.due_day /\ TextLess(a.category.name, b.category.name)

(* C22: EntryService::list_by_month(month_id) fails with MonthNotFound for   *)
(* an unknown month; otherwise it returns exactly the entries of that month, *)
(* each once, ordered by due day ascending with the entries that have no due *)
(* day last and ties broken by category name ascending, and the categories   *)
(* of get_month_summary for the month come in the same order                 *)
C22_ListedByDueDayThenName ==
    \A month_id \in MonthIds :
        LET r == EntryServiceListByMonth(Store, month_id)
            summary == SummaryServiceGetMonthSummary(Store, month_id)
        IN  IF ~\E m \in months : m.id = month_id
            THEN r = Err("MonthNotFound")
            ELSE /\ IsOk(r)
                 /\ Len(r.val) = Cardinality(EntriesOf(Store, month_id))
                 /\ \A e \in EntriesOf(Store, month_id) :
                        \E i \in DOMAIN r.val :
                            /\ r.val[i].id = e.id
                            /\ r.val[i].budgeted = e.budgeted
                            /\ r.val[i].due_day = e.due_day
                            /\ r.val[i].category.id = e.category_id
                            /\ \E c \in categories :
                                   c.id = e.category_id /\ c.name = r.val[i].category.name
                 /\ \A i, j \in DOMAIN r.val : i < j => ListedBefore(r.val[i], r.val[j])
                 /\ IsOk(summary)
                 /\ Len(summary.val.categories) = Len(r.val)
                 /\ \A i \in DOMAIN r.val :
                        /\ summary.val.categories[i].entry_id = r.val[i].id
                        /\ summary.val.categories[i].category = r.val[i].category

(* a month lists four entries: due on day 1, two due on day 15 in the order  *)
(* of their names, and one with no due day, which was created first; the     *)
(* other month lists its one entry                                           *)
C22_Witness ==
    \E m \in months, o \in months :
        LET r == EntryServiceListByMonth(Store, m.id)
        IN  /\ IsOk(r) /\ Len(r.val) = 4
            /\ r.val[1].due_day = Some(1)
            /\ r.val[2].due_day = Some(15) /\ r.val[3].due_day = Some(15)
            /\ r.val[2].id > r.val[3].id
            /\ r.val[4].due_day = None /\ r.val[4].id < r.val[1].id
            /\ o.id /= m.id
            /\ Len(EntryServiceListByMonth(Store, o.id).val) = 1
            /\ EntryServiceListByMonth(Store, UnknownId) = Err("MonthNotFound")

-----------------------------------------------------------------------------
(* SpecTransactionList: the transactions of two months, one entry each, on   *)
(* two dates, created at the same instant or one after the other             *)

TxnListRows == 3

TxnListLimit ==
    [month |-> 2, category |-> Len(ListNames), entry |-> 2, transaction |-> TxnListRows]

TxnListDates == TxnDates \cup TxnUpdateDates

(* one entry in each month, of the first category *)
TxnListInit ==
    ListInitWith({<<Some(None), None, None, None>>}, {Some(None)})

TxnListNext ==
    \/ TransactionCreate(TxnListLimit, {5}, TxnListDates, {None}, {0, 1})
    \/ TransactionUpdate(TxnListLimit, Patches(EntryIds, {}, TxnListDates, {}))
    \/ TransactionDelete(TxnListLimit)
    \/ TransactionListByMonth

SpecTransactionList == TxnListInit /\ [][TxnListNext]_vars

(* the transactions whose entry is of the month *)
TransactionsOfMonth(s, month_id) ==
    {t \in s.transactions : \E e \in s.entries : e.id = t.entry_id /\ e.month_id = month_id}

DateBefore(a, b) ==
    \/ a.year < b.year
    \/ a.year = b.year /\ a.month < b.month
    \/ a.year = b.year /\ a.month = b.month /\ a.day < b.day

(* a list of transactions is ordered by date descending and, for equal       *)
(* dates, by creation time descending                                        *)
NewestFirst(list) ==
    \A i, j \in DOMAIN list :
        i < j => \/ DateBefore(list[j].date, list[i].date)
                 \/ list[i].date = list[j].date /\ list[i].created_at >= list[j].created_at

(* C23: TransactionService::list_by_month(month_id) returns exactly the      *)
(* transactions whose current entry belongs to that month, each once,        *)
(* ordered by date descending and, for equal dates, by creation time         *)
(* descending; a transaction that update moves to an entry of another month  *)
(* leaves the list of its month and appears in the list of the other         *)
C23_ListedNewestFirst ==
    \A month_id \in MonthIds, tie \in BOOLEAN :
        LET r == TransactionServiceListByMonth(Store, month_id, tie)
        IN  /\ IsOk(r)
            /\ Len(r.val) = Cardinality(TransactionsOfMonth(Store, month_id))
            /\ \A t \in TransactionsOfMonth(Store, month_id) :
                   \E i \in DOMAIN r.val :
                       /\ r.val[i].id = t.id /\ r.val[i].entry_id = t.entry_id
                       /\ r.val[i].amount = t.amount /\ r.val[i].title = t.title
                       /\ TransactionDateToString(r.val[i].date) = t.date
                       /\ r.val[i].created_at = t.created_at
            /\ NewestFirst(r.val)
            /\ \A t \in TransactionsOfMonth(Store, month_id), e \in entries :
                   e.month_id /= month_id =>
                       LET moved == TransactionServiceUpdate(Store, t.id, Some(e.id),
                                                             None, None, None)
                           here == TransactionServiceListByMonth(moved.store, month_id, tie)
                           there == TransactionServiceListByMonth(moved.store, e.month_id, tie)
                       IN  /\ IsOk(moved.res) /\ IsOk(here) /\ IsOk(there)
                           /\ ~\E i \in DOMAIN here.val : here.val[i].id = t.id
                           /\ \E i \in DOMAIN there.val : there.val[i].id = t.id
                           /\ Len(here.val) = Len(r.val) - 1
                           /\ NewestFirst(there.val)

(* a month lists three transactions: the one of the later date first though  *)
(* it was created first, then two of the earlier date, the later created     *)
(* before the other; moved to the entry of the other month, the first one is *)
(* listed there                                                              *)
C23_Witness ==
    \E m \in months, e \in entries :
        LET r == TransactionServiceListByMonth(Store, m.id, TRUE)
        IN  /\ IsOk(r) /\ Len(r.val) = 3
            /\ DateBefore(r.val[2].date, r.val[1].date)
            /\ r.val[2].date = r.val[3].date
            /\ r.val[2].created_at > r.val[3].created_at
            /\ r.val[3].created_at > r.val[1].created_at
            /\ e.month_id /= m.id
            /\ LET moved == TransactionServiceUpdate(Store, r.val[1].id, Some(e.id),
                                                     None, None, None)
               IN  /\ IsOk(moved.res)
                   /\ Len(TransactionServiceListByMonth(moved.store, m.id, TRUE).val) = 2
                   /\ TransactionServiceListByMonth(moved.store, e.month_id, TRUE).val[1].id
                          = r.val[1].id

(* the ids of transactions handed out so far, and the unknown id *)
HandedOutTransactionIds == 0..(nextId.transaction - 1)

(* C24: TransactionService::delete(id) removes exactly transaction id and no *)
(* other row of any table; on an id that names no transaction, one already   *)
(* deleted included, it fails with NotFound and changes nothing              *)
C24_DeleteRemovesOne ==
    \A id \in HandedOutTransactionIds :
        LET r == TransactionServiceDelete(Store, id)
            found == {t \in transactions : t.id = id}
        IN  IF found = {}
            THEN r.res = Err("NotFound") /\ r.store = Store
            ELSE /\ r.res = Ok(<<>>)
                 /\ r.store = [Store EXCEPT !.transactions = @ \ found]
                 /\ Cardinality(found) = 1
                 /\ LET again == TransactionServiceDelete(r.store, id)
                    IN  again.res = Err("NotFound") /\ again.store = r.store

(* a transaction is deleted next to another of the same entry, and the id of *)
(* a transaction deleted before is not found                                 *)
C24_Witness ==
    \E t \in transactions, o \in transactions, gone \in HandedOutTransactionIds :
        /\ o.id /= t.id /\ o.entry_id = t.entry_id
        /\ gone /= UnknownId /\ ~\E x \in transactions : x.id = gone
        /\ TransactionServiceDelete(Store, t.id).res = Ok(<<>>)
        /\ o \in TransactionServiceDelete(Store, t.id).store.transactions
        /\ t \notin TransactionServiceDelete(Store, t.id).store.transactions
        /\ TransactionServiceDelete(Store, gone).res = Err("NotFound")

-----------------------------------------------------------------------------
(* SpecBudgetMonth: BudgetMonth::new on years and months at and around the   *)
(* ends of the ranges, then to_string and parse of the value it returns      *)

(* year: i32 *)
BudgetMonthYears == {-1, 0, 1999, 2000, 2001, 2026, 2099, 2100, 2101, 20000}

(* month: u8 *)
BudgetMonthMonths == {0, 1, 2, 9, 10, 11, 12, 13, 100, 255}

BudgetMonthInit ==
    FunctionInit("BudgetMonth::new",
                 {[year |-> y, month |-> m] : y \in BudgetMonthYears, m \in BudgetMonthMonths})

BudgetMonthNewReturn ==
    FunctionReturn("BudgetMonth::new", BudgetMonthNew(procs.args.year, procs.args.month))

(* bm.to_string().parse::<BudgetMonth>() on the value new has returned *)
BudgetMonthParseReturn ==
    /\ Returned("BudgetMonth::new") /\ IsOk(procs.res)
    /\ procs' = [procs EXCEPT !.pc = "parsed",
                              !.res = [tag |-> "Ok", val |-> procs.res.val,
                                       text |-> BudgetMonthToString(procs.res.val),
                                       parsed |-> BudgetMonthFromStr(
                                                      BudgetMonthToString(procs.res.val))]]
    /\ StoreUnchanged

BudgetMonthNext ==
    \/ BudgetMonthNewReturn
    \/ BudgetMonthParseReturn

SpecBudgetMonth == BudgetMonthInit /\ [][BudgetMonthNext]_vars

(* the decimal digits of n, most significant first, in width places *)
RECURSIVE ZeroPadded(_, _)
ZeroPadded(n, width) ==
    IF width = 0 THEN <<>> ELSE Append(ZeroPadded(n \div 10, width - 1), 48 + (n % 10))

(* C25: BudgetMonth::new(year, month) succeeds exactly when 2000 <= year <=  *)
(* 2100 and 1 <= month <= 12; for every value it returns, to_string gives    *)
(* the zero-padded text "YYYY-MM" and parsing that text gives the same       *)
(* BudgetMonth back                                                          *)
C25_NewAndRoundTrip ==
    /\ procs.pc \in {"returned", "parsed"} =>
           /\ IsOk(procs.res) <=> (/\ 2000 <= procs.args.year /\ procs.args.year <= 2100
                                   /\ 1 <= procs.args.month /\ procs.args.month <= 12)
           /\ IsOk(procs.res) => procs.res.val = procs.args
           /\ ~IsOk(procs.res) => procs.res = Err("InvalidBudgetMonth")
    /\ procs.pc = "parsed" =>
           /\ procs.res.text = ZeroPadded(procs.args.year, 4) \o <<45>>
                                   \o ZeroPadded(procs.args.month, 2)
           /\ procs.res.parsed = Ok(procs.args)

(* January 2000 is made, written as "2000-01" and parsed back *)
C25_Witness ==
    /\ procs.pc = "parsed"
    /\ procs.args = [year |-> 2000, month |-> 1]
    /\ procs.res.text = <<50, 48, 48, 48, 45, 48, 49>>
    /\ procs.res.parsed = Ok([year |-> 2000, month |-> 1])

-----------------------------------------------------------------------------
(* SpecCategoryName: CategoryName::new on every text of a few chars          *)

MaxNameLen == 3

(* '/', '-', '_', '0', 'Z', 'a', ' ', '!', and beyond ASCII the superscript  *)
(* two and the letter e with acute                                           *)
NameChars == {47, 45, 95, 48, 90, 97, 32, 33, 178, 233}

NameInputs == UNION {[1..n -> NameChars] : n \in 0..MaxNameLen}

CategoryNameInit == FunctionInit("CategoryName::new", NameInputs)

CategoryNameNewReturn ==
    FunctionReturn("CategoryName::new", CategoryNameNew(procs.args))

CategoryNameNext == CategoryNameNewReturn

SpecCategoryName == CategoryNameInit /\ [][CategoryNameNext]_vars

(* a char of [A-Za-z0-9_-] *)
IsNameChar(c) ==
    c \in 65..90 \/ c \in 97..122 \/ c \in 48..57 \/ c = 95 \/ c = 45

(* C26: CategoryName::new(s) succeeds exactly when s is non-empty, has no '/' *)
(* at its start or end and no "//", so that it splits on '/' into non-empty  *)
(* segments, and every character of every segment is in [A-Za-z0-9_-]; a     *)
(* name with a character outside that set in some segment is rejected        *)
C26_NameCharsAreAscii ==
    Returned("CategoryName::new") =>
        LET s == procs.args
        IN  /\ IsOk(procs.res) <=>
                  /\ s /= <<>>
                  /\ s[1] /= 47 /\ s[Len(s)] /= 47
                  /\ \A i \in 1..(Len(s) - 1) : ~(s[i] = 47 /\ s[i + 1] = 47)
                  /\ \A i \in 1..Len(s) : s[i] = 47 \/ IsNameChar(s[i])
            /\ IsOk(procs.res) => procs.res.val = s

-----------------------------------------------------------------------------
(* SpecSummary: get_month_summary one repository call per step, with whole   *)
(* calls of TransactionService create, update and delete between its steps   *)

SummaryIdle ==
    [pc |-> "idle", month_id |-> UnknownId, month |-> <<>>, listed |-> <<>>,
     acc |-> SummaryStart, res |-> <<>>]

(* month_repo.find_by_id is the first call *)
StartGetMonthSummary ==
    /\ procs.pc \in {"idle", "returned"}
    /\ \E month_id \in MonthIds :
           procs' = [SummaryIdle EXCEPT !.pc = "find_by_id", !.month_id = month_id]
    /\ StoreUnchanged

SummaryFindMonth ==
    /\ procs.pc = "find_by_id"
    /\ LET month == MonthRepoFindById(Store, procs.month_id)
       IN  IF month.val = None
           THEN procs' = [procs EXCEPT !.pc = "returned", !.res = Err("NotFound")]
           ELSE procs' = [procs EXCEPT !.pc = "list_by_month", !.month = Unwrap(month.val)]
    /\ StoreUnchanged

SummaryListEntries ==
    /\ procs.pc = "list_by_month"
    /\ procs' = [procs EXCEPT !.pc = "sum_by_entry",
                              !.listed = EntryRepoListByMonth(Store, procs.month_id, FALSE).val]
    /\ StoreUnchanged

(* one turn of the loop: sum_by_entry of the next listed entry *)
SummarySumEntry ==
    /\ procs.pc = "sum_by_entry"
    /\ Len(procs.acc.categories) < Len(procs.listed)
    /\ LET entry == procs.listed[Len(procs.acc.categories) + 1]
       IN  procs' = [procs EXCEPT !.acc = SummaryAdd(@, entry,
                                             TransactionRepoSumByEntry(Store, entry.id).val)]
    /\ StoreUnchanged

SummaryReturn ==
    /\ procs.pc = "sum_by_entry"
    /\ Len(procs.acc.categories) = Len(procs.listed)
    /\ procs' = [procs EXCEPT !.pc = "returned",
                              !.res = Ok(SummaryFinish(procs.month, procs.acc))]
    /\ StoreUnchanged

SummaryAmounts == {5, 15}

SummaryLimit ==
    [month |-> 1, category |-> 2, entry |-> 2, transaction |-> ConcTransactionRows]

SummaryInit == TxnInitWith({SummaryIdle})

SummaryNext ==
    \/ StartGetMonthSummary
    \/ SummaryFindMonth
    \/ SummaryListEntries
    \/ SummarySumEntry
    \/ SummaryReturn
    \/ TransactionCreate(SummaryLimit, SummaryAmounts, Dates, Titles, {0})
    \/ TransactionUpdate(SummaryLimit, Patches(EntryIds, SummaryAmounts, {}, {}))
    \/ TransactionDelete(SummaryLimit)

SpecSummary == SummaryInit /\ [][SummaryNext]_vars

(* the sum of a field over the rows of a summary *)
RECURSIVE SumOfRows(_, _)
SumOfRows(rows, field) ==
    IF rows = <<>> THEN 0 ELSE rows[1][field] + SumOfRows(Tail(rows), field)

SummaryIsConsistent(summary) ==
    /\ summary.total_budgeted = SumOfRows(summary.categories, "budgeted")
    /\ summary.total_paid = SumOfRows(summary.categories, "paid")
    /\ summary.remaining = SumOfRows(summary.categories, "remaining")
    /\ \A i \in DOMAIN summary.categories :
           LET row == summary.categories[i]
           IN  row.status = DeriveStatus(row.budgeted, row.paid)

(* C29: every MonthSummary get_month_summary returns is consistent in        *)
(* itself, also when transactions are created, updated or deleted between    *)
(* its reads of the sums: total_budgeted, total_paid and remaining are the   *)
(* sums of budgeted, paid and remaining over its rows, and the status of     *)
(* each row is derive_status of the row's budgeted and paid; no step of      *)
(* get_month_summary changes a stored entity                                 *)
C29_SummaryIsConsistent ==
    /\ [](procs.pc = "returned" /\ IsOk(procs.res) => SummaryIsConsistent(procs.res.val))
    /\ [][procs' /= procs => StoreUnchanged]_vars

(* a summary counts the one transaction there ever was in both of its rows:  *)
(* update moved it between the two reads of the sums                         *)
C29_Witness ==
    /\ procs.pc = "returned" /\ IsOk(procs.res)
    /\ nextId.transaction = 2
    /\ Len(procs.res.val.categories) = 2
    /\ procs.res.val.categories[1].paid = 5
    /\ procs.res.val.categories[2].paid = 5
    /\ procs.res.val.total_paid = 10
    /\ procs.res.val.remaining = 0

====
